---- MODULE Spec2Model ----
(***************************************************************************)
(* A model of beammech (src/src/beammech.py): the load classes, the input  *)
(* validation and the solve function, in exact (rational) arithmetic.      *)
(* A number is a pair <<n, d>> with d > 0 and gcd(n, d) = 1; a deflection   *)
(* whose numerator is beyond 2^31 is a triple <<w, n, d>>, w + n/d.  An    *)
(* array is a function on 0..length.  The rotation angle a = arctan(dy) is *)
(* left out of the result: nothing else reads it.                          *)
(***************************************************************************)
EXTENDS Integers, Sequences, FiniteSets, TLC

\* The field names of the records below, in the one order in which every
\* record constructor lists its fields.
FieldOrder(err, status, val, msg, ty, v, items, kind, obj, heap, ref, length,
           s1, s2, EI, GA, top, bot, D, M, dy, y, R, R2, ls1, R1, etop, ebot,
           cls, size, pos, start, end, m, q, supports, loads, shear, prob, res) == TRUE

VARIABLES
    pLength, pSupports, pEI, pGA, pTop, pBottom, pShear,  \* the problem definition
    loads,      \* the caller's list of loads
    passed,     \* how the caller passes the loads: the list, one Load, None
    results,    \* what the last call of solve returned or raised
    raised,     \* the exception of the last constructor call, "none" if none
    api,        \* the module in use: "namespace" (src/src/beammech.py) or
                \* "dict" (src/beammech.py)
    written,    \* the x column of the file at the path given to save
    args,       \* the arguments of the last call made with arguments of any
                \* kind: Load(**kwargs), DistLoad(**kwargs), interpolate(tuples),
                \* EI(sections), a method of a load
    returned    \* what the last call of interpolate, EI or a method of a
                \* load returned

problem == <<pLength, pSupports, pEI, pGA, pTop, pBottom, pShear, passed>>

vars == <<problem, loads, results, raised, api, written, args, returned>>

\* ------------------------------------------------------------------ bounds

MaxLen == 3

MaxLoads == 2

\* ------------------------------------------------------- exact arithmetic

Abs(i) == IF i < 0 THEN -i ELSE i

RECURSIVE GCD(_, _)
GCD(a, b) == IF b = 0 THEN a ELSE GCD(b, a % b)

Norm(n, d) ==
    LET g == GCD(Abs(n), Abs(d))
        s == IF d < 0 THEN -1 ELSE 1
    IN  <<(s * n) \div g, (s * d) \div g>>

Num(i) == <<i, 1>>

Zero == Num(0)

RNeg(a) == <<-a[1], a[2]>>

RAdd(a, b) == Norm(a[1] * b[2] + b[1] * a[2], a[2] * b[2])

RSub(a, b) == RAdd(a, RNeg(b))

RMul(a, b) == Norm(a[1] * b[1], a[2] * b[2])

RDiv(a, b) == Norm(a[1] * b[2], a[2] * b[1])

RLess(a, b) == a[1] * b[2] < b[1] * a[2]

\* Numbers beyond the integers of the model checker: a + b and k * q are
\* computed on the whole part and the fraction apart.  The result is the
\* fraction <<n, d>> in lowest terms where its numerator can be held, and
\* else <<w, n, d>>, standing for w + n/d with 0 <= n/d < 1.
Whole(a) == IF Len(a) = 3 THEN a[1] ELSE a[1] \div a[2]

Part(a) == IF Len(a) = 3 THEN <<a[2], a[3]>> ELSE <<a[1] % a[2], a[2]>>

\* w + f, f a fraction in lowest terms; 2147483647 is the largest integer
\* of the model checker
Mixed(w, f) ==
    IF Abs(w + (f[1] \div f[2])) < (2147483647 \div f[2]) - 1
    THEN <<(w + (f[1] \div f[2])) * f[2] + (f[1] % f[2]), f[2]>>
    ELSE <<w + (f[1] \div f[2]), f[1] % f[2], f[2]>>

WAdd(a, b) == Mixed(Whole(a) + Whole(b), RAdd(Part(a), Part(b)))

\* k * q, k an integer
WScale(k, q) == Mixed(k * Whole(q), Norm(k * Part(q)[1], Part(q)[2]))

WLess(a, b) ==
    \/ Whole(a) < Whole(b)
    \/ Whole(a) = Whole(b) /\ RLess(Part(a), Part(b))

\* Python 3 round(): to the nearest integer, a tie to the even one.
round(a) ==
    LET f == a[1] \div a[2]
        r == a[1] - f * a[2]
    IN  IF 2 * r < a[2] THEN f
        ELSE IF 2 * r > a[2] THEN f + 1
        ELSE IF f % 2 = 0 THEN f ELSE f + 1

RECURSIVE SumSeq(_)
SumSeq(s) == IF s = <<>> THEN Zero ELSE RAdd(Head(s), SumSeq(Tail(s)))

\* The running sums left, followed by the running sums right carried on
\* from the last of left
Carried(left, right) ==
    left \o [k \in 1..Len(right) |-> RAdd(left[Len(left)], right[k])]

\* The running sums a[lo], a[lo] + a[lo + 1], ..., a[lo] + ... + a[hi], taken
\* half by half: the exact sums do not depend on the grouping
RECURSIVE RunningSums(_, _, _)
RunningSums(a, lo, hi) ==
    IF lo = hi THEN <<a[lo]>>
    ELSE Carried(RunningSums(a, lo, (lo + hi) \div 2),
                 RunningSums(a, (lo + hi) \div 2 + 1, hi))

\* The array on 0..n of the entries of a sequence
Indexed(s, n) == [i \in 0..n |-> s[i + 1]]

\* numpy.cumsum of an array on 0..n
cumsum(a, n) == Indexed(RunningSums(a, 0, n), n)

\* numpy.linspace(0, q, d)[k], 0 <= k < d: d samples from 0 to q inclusive
linspace(q, d, k) == IF d = 1 THEN Zero ELSE RDiv(RMul(q, Num(k)), Num(d - 1))

\* first index of the slice rv[pos:] of an array of n entries
SliceFrom(pos, n) ==
    IF pos < 0 THEN (IF n + pos < 0 THEN 0 ELSE n + pos)
    ELSE IF pos > n THEN n ELSE pos

\* ------------------------------------------------------- argument values

Float(q) == [ty |-> "float", v |-> q, items |-> <<>>]

BadStr == [ty |-> "badstr", v |-> Zero, items |-> <<>>]

Tuple(s) == [ty |-> "tuple", v |-> Zero, items |-> s]

List(s) == [ty |-> "list", v |-> Zero, items |-> s]

None == [ty |-> "None", v |-> Zero, items |-> <<>>]

Bool(b) == [ty |-> "bool", v |-> IF b THEN Num(1) ELSE Zero, items |-> <<>>]

Ok(x) == [err |-> "none", val |-> x]

Raise(e) == [err |-> e, val |-> Zero]

\* A string, as the sequence of its characters
Str(chars) == [ty |-> "str", v |-> Zero, items |-> chars]

Digits == {"0", "1", "2", "3", "4", "5", "6", "7", "8", "9"}

DigitValue(c) ==
    CASE c = "0" -> 0 [] c = "1" -> 1 [] c = "2" -> 2 [] c = "3" -> 3
      [] c = "4" -> 4 [] c = "5" -> 5 [] c = "6" -> 6 [] c = "7" -> 7
      [] c = "8" -> 8 [] c = "9" -> 9

\* The number written by a sequence of digits
RECURSIVE DigitsValue(_)
DigitsValue(s) ==
    IF s = <<>> THEN 0
    ELSE 10 * DigitsValue(SubSeq(s, 1, Len(s) - 1)) + DigitValue(s[Len(s)])

RECURSIVE Power10(_)
Power10(n) == IF n = 0 THEN 1 ELSE 10 * Power10(n - 1)

\* The value of the digits of an unsigned decimal of n characters, its
\* decimal points at the places points
Decimal(digits, points, n) ==
    IF \/ digits = <<>>
       \/ Cardinality(points) > 1
       \/ \E i \in 1..Len(digits) : digits[i] \notin Digits
    THEN Raise("ValueError")
    ELSE IF points = {} THEN Ok(Num(DigitsValue(digits)))
    ELSE Ok(Norm(DigitsValue(digits), Power10(n - (CHOOSE i \in points : TRUE))))

\* float() of the unsigned decimal s: digits with at most one point
ParseUnsigned(s) ==
    Decimal(SelectSeq(s, LAMBDA c : c # "."), {i \in 1..Len(s) : s[i] = "."}, Len(s))

\* The parsed number u with a minus sign before it
Negated(u) == IF u.err # "none" THEN u ELSE Ok(RNeg(u.val))

\* float() of a string of characters: a sign, then an unsigned decimal
ParseFloat(s) ==
    IF s # <<>> /\ s[1] = "-" THEN Negated(ParseUnsigned(Tail(s)))
    ELSE IF s # <<>> /\ s[1] = "+" THEN ParseUnsigned(Tail(s))
    ELSE ParseUnsigned(s)

\* float(x): a number converts, a string is parsed, anything else raises
\* float(x) if every value that is no number raised ValueError
float_ValueErrorOnly(x) ==
    IF x.ty \in {"float", "bool"} THEN Ok(x.v)
    ELSE IF x.ty = "str" THEN ParseFloat(x.items)
    ELSE Raise("ValueError")

float(x) ==
    IF x.ty \in {"float", "bool"} THEN Ok(x.v)
    ELSE IF x.ty = "str" THEN ParseFloat(x.items)
    ELSE IF x.ty = "badstr" THEN Raise("ValueError")
    ELSE Raise("TypeError")

\* As Gravity, rounded to one decimal
Gravity_Rounded == <<-98, 10>>

\* Standard gravity in the -y direction: a mass of 1 kg weighs -9.81 N
Gravity == <<-981, 100>>

\* The weight of the mass f, the result of float(kwargs["kg"])
Weight(f) == IF f.err # "none" THEN f ELSE Ok(RMul(Gravity, f.val))

force(kwargs) ==
    IF "force" \in DOMAIN kwargs THEN float(kwargs["force"])
    ELSE IF "kg" \in DOMAIN kwargs THEN Weight(float(kwargs["kg"]))
    ELSE Raise("KeyError")

\* round(float(x)) of one entry
Rounded(f) == IF f.err # "none" THEN f ELSE Ok(round(f.val))

RoundFloat(x) == Rounded(float(x))

\* The pair of the rounded entries x and y, or the first error
Paired(x, y) ==
    IF x.err # "none" THEN x
    ELSE IF y.err # "none" THEN y
    ELSE Ok(<<x.val, y.val>>)

RoundPair(a, b) == Paired(RoundFloat(a), RoundFloat(b))

\* p[i - 1] of a tuple, a list or a string: a string gives its character
Entry(p, i) == IF p.ty = "str" THEN Str(<<p.items[i]>>) ELSE p.items[i]

\* Lines 641-643: len() of a number or of None raises TypeError, the test
\* raises only for what is no tuple and has not two entries, the subscripts
\* raise IndexError on fewer than two entries
PosPair(p) ==
    IF p.ty \notin {"tuple", "list", "str"} THEN Raise("TypeError")
    ELSE IF p.ty # "tuple" /\ Len(p.items) # 2 THEN Raise("ValueError")
    ELSE IF Len(p.items) < 2 THEN Raise("IndexError")
    ELSE RoundPair(Entry(p, 1), Entry(p, 2))

start_end(kwargs) ==
    IF "pos" \in DOMAIN kwargs THEN PosPair(kwargs["pos"])
    ELSE IF "start" \in DOMAIN kwargs /\ "end" \in DOMAIN kwargs THEN
        RoundPair(kwargs["start"], kwargs["end"])
    ELSE Raise("KeyError")

\* ------------------------------------------------------------ the loads

\* One record shape for the four classes; pos is a number (an integer for
\* every class but TriangleLoad), start/end are integers.
Obj(cls, size, pos, start, end, m, q) ==
    [cls |-> cls, size |-> size, pos |-> pos, start |-> start, end |-> end,
     m |-> m, q |-> q]

\* Load.__init__
\* Line 452, the size f in hand and p the result of round(float(kwargs["pos"]))
LoadAt(f, p) ==
    IF p.err # "none" THEN p
    ELSE Ok(Obj("Load", f.val, Num(p.val), 0, 0, Zero, Zero))

\* Lines 451-452, f the result of _force(**kwargs)
LoadOf(f, kwargs) ==
    IF f.err # "none" THEN f
    ELSE IF "pos" \notin DOMAIN kwargs THEN Raise("KeyError")
    ELSE LoadAt(f, RoundFloat(kwargs["pos"]))

Load(kwargs) == LoadOf(force(kwargs), kwargs)

\* Load(force=size, pos=pos) with plain numbers, as solve and the subclasses call it
PointLoad(size, pos) ==
    Load([k \in {"force", "pos"} |-> IF k = "force" THEN Float(size) ELSE Float(pos)])

\* MomentLoad.__init__
\* The moment mm, the result of float(moment), put on the Load base
MomentOn(mm, base) ==
    IF mm.err # "none" THEN mm
    ELSE IF base.err # "none" THEN base
    ELSE Ok([base.val EXCEPT !.cls = "MomentLoad", !.m = mm.val])

MomentLoad(moment, pos) ==
    MomentOn(float(moment),
             Load([k \in {"force", "pos"} |-> IF k = "force" THEN Float(Zero) ELSE pos]))

\* Lines 537-547 of DistLoad.__init__, the force f and the span <<a, b>> in hand
DistObj(f, a, b) ==
    LET st == IF a > b THEN b ELSE a
        en == IF a > b THEN a ELSE b
        base == PointLoad(f, RDiv(Num(st + en), Num(2)))
    IN  Ok([base.val EXCEPT !.cls = "DistLoad", !.start = st, !.end = en])

DistSpan(f, se) ==
    IF f.err # "none" THEN f
    ELSE IF se.err # "none" THEN se
    ELSE DistObj(f.val, se.val[1], se.val[2])

\* DistLoad.__init__
DistLoad(kwargs) == DistSpan(force(kwargs), start_end(kwargs))

\* Lines 579-582 of TriangleLoad.__init__, on the DistLoad o of length > 0
TriangleObj(o, length) ==
    Ok([o EXCEPT !.cls = "TriangleLoad",
                 !.pos = RAdd(Num(o.start), RDiv(Num(2 * length), Num(3))),
                 !.q = RDiv(RMul(Num(2), o.size), Num(length))])

TriangleSpan(d) ==
    IF d.err # "none" THEN d
    ELSE IF d.val.start = d.val.end THEN Raise("ZeroDivisionError")
    ELSE TriangleObj(d.val, Abs(d.val.start - d.val.end))

\* TriangleLoad.__init__
TriangleLoad(kwargs) == TriangleSpan(DistLoad(kwargs))

isLoad(x) == x.cls \in {"Load", "MomentLoad", "DistLoad", "TriangleLoad"}

\* ld.moment(pos)
moment(ld, pos) ==
    IF ld.cls = "MomentLoad" THEN ld.m
    ELSE RMul(RSub(ld.pos, Num(pos)), ld.size)

\* The ramp-and-hold part shared by DistLoad.shear and TriangleLoad.shear:
\* zeros(start), linspace(0, q, end - start), ones(rem) * q
Ramp(ld, q, length) ==
    [i \in 0..length |->
        IF i < ld.start THEN Zero
        ELSE IF i < ld.end THEN linspace(q, ld.end - ld.start, i - ld.start)
        ELSE q]

\* ld.shear(length): numpy refuses an array of negative size
shear(ld, length) ==
    IF ld.cls = "Load" THEN
        Ok([i \in 0..length |->
              IF i >= SliceFrom(ld.pos[1], length + 1) THEN ld.size ELSE Zero])
    ELSE IF ld.cls = "MomentLoad" THEN Ok([i \in 0..length |-> Zero])
    ELSE IF ld.start < 0 \/ length + 1 - ld.end < 0 THEN Raise("ValueError")
    ELSE IF ld.cls = "DistLoad" THEN Ok(Ramp(ld, ld.size, length))
    ELSE Ok(cumsum(Ramp(ld, ld.q, length), length))

\* As moment_array, the sign of the step forgotten
moment_array_Positive(ld, length) ==
    [i \in 0..length |->
        IF i >= SliceFrom(ld.pos[1], length + 1) THEN ld.m ELSE Zero]

\* ld.moment_array(length), MomentLoad only
moment_array(ld, length) ==
    [i \in 0..length |->
        IF i >= SliceFrom(ld.pos[1], length + 1) THEN RNeg(ld.m) ELSE Zero]

\* An object that is no Load (a number put in the list of loads)
Other == Obj("int", Zero, Zero, 0, 0, Zero, Zero)

\* A plain number held where a Load may also be held (R2 of a clamped beam)
Plain(x) == Obj("float", x, Zero, 0, 0, Zero, Zero)

\* ------------------------------------------------------------ validation

Fail(e, text) == [err |-> e, msg |-> text]

\* As SortPair, the swap of a descending pair forgotten
SortPair_NoSwap(a, b) == <<a, b>>

\* The rounded supports in ascending order
SortPair(a, b) == IF a > b THEN <<b, a>> ELSE <<a, b>>

\* _check_length_supports: supports is None or a sequence of numbers
check_length_supports(length, supports) ==
    LET L == round(length)
    IN  IF L < 1 THEN Fail("ValueError", "length must be >= 1")
        ELSE IF supports.ty = "None" THEN
            [err |-> "none", length |-> L, s1 |-> 0, s2 |-> None]
        ELSE IF Len(supports.items) # 2 THEN
            Fail("ValueError", "The problem definition must contain exactly two supports.")
        ELSE LET a == round(supports.items[1])
                 b == round(supports.items[2])
                 lo == SortPair(a, b)[1]
                 hi == SortPair(a, b)[2]
             IN  IF a = b THEN Fail("ValueError", "Two identical supports found!")
                 ELSE IF lo < 0 \/ hi > L THEN
                     Fail("ValueError", "Support(s) outside of the beam!")
                 ELSE [err |-> "none", length |-> L, s1 |-> lo, s2 |-> Float(Num(hi))]

\* The lists of a call live in a small heap: "caller" is the list object the
\* caller holds, the other cells are the lists made during the call.
Refs == {"caller", "single", "checked", "work"}

\* As CopyList, but no copy is made: the same list object is used on
CopyList_Alias(h, src, dst) == [heap |-> h, ref |-> src]

\* list(loads), [ld for ld in loads]: a new list object at dst with the
\* elements of the list at src
CopyList(h, src, dst) == [heap |-> [h EXCEPT ![dst] = h[src]], ref |-> dst]

\* The loads argument of a call: None, one Load, or the caller's list
ArgNone == [kind |-> "None", obj |-> Other]

ArgLoad(ld) == [kind |-> "Load", obj |-> ld]

ArgList == [kind |-> "list", obj |-> Other]

\* As check_loads, the test that every element is a Load forgotten
check_loads_NoInstanceTest(h, arg) ==
    LET h1 == IF arg.kind = "Load" THEN [h EXCEPT !["single"] = <<arg.obj>>] ELSE h
        r1 == IF arg.kind = "Load" THEN "single" ELSE "caller"
        ls == h1[r1]
    IN  IF arg.kind = "None" \/ Len(ls) = 0 THEN
            [err |-> "ValueError", msg |-> "No loads specified", heap |-> h1, ref |-> r1]
        ELSE LET c == CopyList(h1, r1, "checked")
             IN  [err |-> "none", msg |-> "", heap |-> c.heap, ref |-> c.ref]

\* _check_loads
check_loads(h, arg) ==
    LET h1 == IF arg.kind = "Load" THEN [h EXCEPT !["single"] = <<arg.obj>>] ELSE h
        r1 == IF arg.kind = "Load" THEN "single" ELSE "caller"
        ls == h1[r1]
    IN  IF arg.kind = "None" \/ Len(ls) = 0 THEN
            [err |-> "ValueError", msg |-> "No loads specified", heap |-> h1, ref |-> r1]
        ELSE IF \E i \in 1..Len(ls) : ~isLoad(ls[i]) THEN
            [err |-> "ValueError", msg |-> "Loads must be Load instances",
             heap |-> h1, ref |-> r1]
        ELSE LET c == CopyList(h1, r1, "checked")
             IN  [err |-> "none", msg |-> "", heap |-> c.heap, ref |-> c.ref]

\* As check_array, the comparison of the length with L + 1 forgotten
check_array_NoLengthTest(L, ar) ==
    IF ar.ty \in {"float", "bool"} THEN Ok([i \in 0..L |-> ar.v])
    ELSE IF ar.ty \in {"list", "tuple", "ndarray"} THEN
        Ok([i \in 0..(Len(ar.items) - 1) |-> ar.items[i + 1]])
    ELSE Raise("ValueError")

\* One of EI, GA, top, bottom as an array on 0..L
check_array(L, ar) ==
    IF ar.ty \in {"float", "bool"} THEN Ok([i \in 0..L |-> ar.v])
    ELSE IF ar.ty \in {"list", "tuple", "ndarray"} THEN
        IF Len(ar.items) # L + 1 THEN Raise("ValueError")
        ELSE Ok([i \in 0..L |-> ar.items[i + 1]])
    ELSE Raise("ValueError")

\* _check_arrays
check_arrays(L, EI, GA, top, bottom) ==
    LET a == check_array(L, EI)
        b == check_array(L, GA)
        c == check_array(L, top)
        d == check_array(L, bottom)
    IN  IF a.err # "none" THEN Fail("ValueError", "EI")
        ELSE IF b.err # "none" THEN Fail("ValueError", "GA")
        ELSE IF c.err # "none" THEN Fail("ValueError", "top")
        ELSE IF d.err # "none" THEN Fail("ValueError", "bottom")
        ELSE [err |-> "none", EI |-> a.val, GA |-> b.val, top |-> c.val, bot |-> d.val]

\* shear not in (True, False): 0, 1 and 1.0 compare equal to False and True
check_shear(sh) ==
    sh.ty \in {"bool", "float"} /\ sh.v \in {Zero, Num(1)}

\* truth value of s2 in "if s2:"
Truthy(x) == x.ty # "None" /\ x.v # Zero

\* ------------------------------------------------------------------ solve

NoArray == <<>>

\* What a call that raised leaves behind: the exception and the heap
Raised(e, text, h) ==
    [status |-> e, msg |-> text, heap |-> h, length |-> 0, D |-> NoArray,
     M |-> NoArray, dy |-> NoArray, y |-> NoArray, R |-> <<>>,
     etop |-> NoArray, ebot |-> NoArray]

\* The sum of the arrays of a sequence (numpy.sum(..., axis=0)); 0 for none
SumArrays(as, n) == [i \in 0..n |-> SumSeq([k \in 1..Len(as) |-> as[k][i]])]

\* As RampIndex, the ramp counted from index 0 instead of from s1
RampIndex_FromZero(i, s1) == i

\* The multipliers of delta in the alignment ramp:
\* concatenate((arange(-s1, 1, 1), arange(1, len(y) - s1)))
RampIndex(i, s1) == IF i <= s1 THEN -s1 + i ELSE 1 + (i - (s1 + 1))

\* As R2size, the lever arm taken from 0 instead of from s1
R2size_ArmFromZero(mom, s1, s2) == RNeg(RDiv(mom, Num(s2)))

\* R2 of a simply supported beam: moment equilibrium about s1
R2size(mom, s1, s2) == RNeg(RDiv(mom, Num(s2 - s1)))

\* As R2clamped, the sign of the reaction moment forgotten
R2clamped_NoSign(mom) == mom

\* R2 of a clamped beam: the reaction moment
R2clamped(mom) == RNeg(mom)

\* R1: force equilibrium over the loads ls (R2 among them when it is a load)
R1size(ls) == RNeg(SumSeq([i \in 1..Len(ls) |-> ls[i].size]))

\* Lines 207-215: the reactions and the working list with them appended
\* Line 207: the moment of the loads about s1
TotalMoment(ls0, s1) == SumSeq([i \in 1..Len(ls0) |-> moment(ls0[i], s1)])

\* Lines 208-212: R2, a Load at s2 or the reaction moment of the clamp
ReactionR2(mom, s1, s2) ==
    IF Truthy(s2) THEN PointLoad(R2size(mom, s1, s2.v[1]), s2.v).val
    ELSE Plain(R2clamped(mom))

\* Lines 213-215: R1 from the working list ls1
ReactionR1(R2, ls1, s1) ==
    [R2 |-> R2, ls1 |-> ls1, R1 |-> PointLoad(R1size(ls1), Num(s1)).val]

\* Lines 209-215, R2 in hand
Reacting(ls0, s1, s2, R2) ==
    ReactionR1(R2, IF Truthy(s2) THEN Append(ls0, R2) ELSE ls0, s1)

Reactions(ls0, s1, s2) ==
    Reacting(ls0, s1, s2, ReactionR2(TotalMoment(ls0, s1), s1, s2))

\* Line 217: the shear force D, or the error of a load's shear()
ShearForce(ls, L) ==
    LET sheared == [i \in 1..Len(ls) |-> shear(ls[i], L)]
    IN  IF \E i \in 1..Len(ls) : sheared[i].err # "none" THEN Raise("ValueError")
        ELSE Ok(SumArrays([i \in 1..Len(ls) |-> sheared[i].val], L))

\* As BendingMoment, the last entry not subtracted for a clamped beam
BendingMoment_NoShift(D, ls, L, s2) ==
    LET ml == SelectSeq(ls, LAMBDA ld : ld.cls = "MomentLoad")
        Mstep == SumArrays([i \in 1..Len(ml) |-> moment_array(ml[i], L)], L)
        M0 == cumsum(D, L)
        M1 == [i \in 0..L |-> RAdd(M0[i], Mstep[i])]
    IN  M1

\* Lines 219-228: the bending moment M
BendingMoment(D, ls, L, s2) ==
    LET ml == SelectSeq(ls, LAMBDA ld : ld.cls = "MomentLoad")
        Mstep == SumArrays([i \in 1..Len(ml) |-> moment_array(ml[i], L)], L)
        M0 == cumsum(D, L)
        M1 == [i \in 0..L |-> RAdd(M0[i], Mstep[i])]
    IN  IF s2.ty = "None" THEN [i \in 0..L |-> RSub(M1[i], M1[L])] ELSE M1

\* Line 229: the curvature M / EI
Curvature(M, EIs, L) == [i \in 0..L |-> RDiv(M[i], EIs[i])]

\* As Slope, the shear term added whatever the flag
Slope_AlwaysShear(ddy_b, D, GAs, sh, L) ==
    LET dy0 == cumsum(ddy_b, L)
    IN  [i \in 0..L |-> RAdd(dy0[i], RDiv(RMul(<<-3, 2>>, D[i]), GAs[i]))]

\* Lines 231-233: the slope before the alignment
Slope(ddy_b, D, GAs, sh, L) ==
    LET dy0 == cumsum(ddy_b, L)
    IN  IF sh.v # Zero
        THEN [i \in 0..L |-> RAdd(dy0[i], RDiv(RMul(<<-3, 2>>, D[i]), GAs[i]))]
        ELSE dy0

\* As Align, the slope array left as it was
Align_SlopeKept(dy1, y0, s1, s2, L) ==
    IF ~Truthy(s2) THEN [dy |-> dy1, y |-> y0]
    ELSE
    LET y1 == [i \in 0..L |-> RSub(y0[i], y0[s1])]
        delta == RDiv(RNeg(y1[s2.v[1]]), Num(Abs(s1 - s2.v[1])))
    IN  [dy |-> dy1,
         y |-> [i \in 0..L |-> WAdd(y1[i], WScale(RampIndex(i, s1), delta))]]

\* As Align, the deflection moved to 0 at the first support but not turned
\* to 0 at the second
Align_Unrotated(dy1, y0, s1, s2, L) ==
    IF ~Truthy(s2) THEN [dy |-> dy1, y |-> y0]
    ELSE
    LET y1 == [i \in 0..L |-> RSub(y0[i], y0[s1])]
        delta == RDiv(RNeg(y1[s2.v[1]]), Num(Abs(s1 - s2.v[1])))
    IN  [dy |-> [i \in 0..L |-> WAdd(dy1[i], delta)],
         y |-> y1]

\* Lines 235-246: y and dy put to 0 at the supports; y0 = cumsum(dy1)
Align(dy1, y0, s1, s2, L) ==
    IF ~Truthy(s2) THEN [dy |-> dy1, y |-> y0]
    ELSE
    LET y1 == [i \in 0..L |-> RSub(y0[i], y0[s1])]
        delta == RDiv(RNeg(y1[s2.v[1]]), Num(Abs(s1 - s2.v[1])))
    IN  [dy |-> [i \in 0..L |-> WAdd(dy1[i], delta)],
         y |-> [i \in 0..L |-> WAdd(y1[i], WScale(RampIndex(i, s1), delta))]]

\* Lines 229-253, with D and M in hand
Deflect(h2, rx, D, M, v, ar, sh) ==
    LET L == v.length
        ddy_b == Curvature(M, ar.EI, L)
        dy1 == Slope(ddy_b, D, ar.GA, sh, L)
        al == Align(dy1, cumsum(dy1, L), v.s1, v.s2, L)
    IN  [status |-> "ok", msg |-> "", heap |-> h2, length |-> L, D |-> D,
         M |-> M, dy |-> al.dy, y |-> al.y, R |-> <<rx.R1, rx.R2>>,
         etop |-> [i \in 0..L |-> RMul(RNeg(ar.top[i]), ddy_b[i])],
         ebot |-> [i \in 0..L |-> RMul(RNeg(ar.bot[i]), ddy_b[i])]]

\* Lines 216-253, the reactions rx appended to the working list h2[w]
Integrate(h2, w, rx, v, ar, sh) ==
    LET D == ShearForce(h2[w], v.length)
    IN  IF D.err # "none" THEN
            Raised("ValueError", "negative dimensions are not allowed", h2)
        ELSE Deflect(h2, rx, D.val,
                     BendingMoment(D.val, h2[w], v.length, v.s2), v, ar, sh)

\* Lines 206-253 of solve, the validation done: the working list is h[w],
\* v is the validated length and supports, ar the four arrays.
React(h, w, rx, v, ar, sh) ==
    Integrate([h EXCEPT ![w] = Append(rx.ls1, rx.R1)], w, rx, v, ar, sh)

compute(h, w, v, ar, sh) == React(h, w, Reactions(h[w], v.s1, v.s2), v, ar, sh)

\* solve(length, supports, loads, EI, GA, top, bottom, shear); h holds the
\* caller's list.  The result carries the heap as the call left it.
solve(h, length, supports, arg, EI, GA, top, bottom, sh) ==
    LET v == check_length_supports(length, supports)
    IN  IF v.err # "none" THEN Raised(v.err, v.msg, h)
        ELSE
        LET c == check_loads(h, arg)
        IN  IF c.err # "none" THEN Raised(c.err, c.msg, c.heap)
            ELSE
            LET w == CopyList(c.heap, c.ref, "work")
                ar == check_arrays(v.length, EI, GA, top, bottom)
            IN  IF ar.err # "none" THEN Raised(ar.err, ar.msg, w.heap)
                ELSE IF ~check_shear(sh) THEN
                    Raised("ValueError", "shear should be a boolean", w.heap)
                ELSE compute(w.heap, w.ref, v, ar, sh)

\* ------------------------------------- the dictionary API (src/beammech.py)

\* The tuple (0, None) that _check_length_supports stores for a clamped beam
ClampTuple == [ty |-> "clamped", v |-> Zero, items |-> <<>>]

\* A key that the problem dictionary does not hold
Missing == [ty |-> "missing", v |-> Zero, items |-> <<>>]

\* A validation step that raised: the dictionary d as it is at the raise
DictFail(e, text, d) ==
    [err |-> e, msg |-> text, length |-> 0, s1 |-> 0, s2 |-> None, prob |-> d]

\* Lines 529-531: the supports are stored and returned
DictSupports(d, s1, s2, stored) ==
    [err |-> "none", msg |-> "", length |-> d.length[1], s1 |-> s1, s2 |-> s2,
     prob |-> [d EXCEPT !.supports = stored]]

\* Lines 521-528: two supports, rounded to a and b
DictPair(d, a, b) ==
    IF a = b THEN DictFail("ValueError", "Two identical supports found!", d)
    ELSE IF SortPair(a, b)[1] < 0 \/ SortPair(a, b)[2] > d.length[1] THEN
        DictFail("ValueError", "Support(s) outside of the beam!", d)
    ELSE DictSupports(d, SortPair(a, b)[1], Float(Num(SortPair(a, b)[2])),
                      Tuple(<<Num(SortPair(a, b)[1]), Num(SortPair(a, b)[2])>>))

\* Lines 515-528, the rounded length stored in d
DictLength(d) ==
    IF d.length[1] < 1 THEN DictFail("ValueError", "length must be >= 1", d)
    ELSE IF d.supports.ty = "None" THEN DictSupports(d, 0, None, ClampTuple)
    ELSE IF d.supports.ty = "clamped" THEN
        DictFail("TypeError", "type NoneType doesn't define __round__ method", d)
    ELSE IF Len(d.supports.items) # 2 THEN
        DictFail("ValueError",
                 "The problem definition must contain exactly two supports.", d)
    ELSE DictPair(d, round(d.supports.items[1]), round(d.supports.items[2]))

\* _check_length_supports(problem): problem['length'] is rounded in place
\* before anything is tested
dict_check_length_supports(d) ==
    DictLength([d EXCEPT !.length = Num(round(d.length))])

\* _check_loads(problem): as check_loads, and a single Load is stored in the
\* dictionary as a list of one
dict_check_loads(h, d) ==
    LET c == check_loads(h, d.loads)
    IN  [err |-> c.err, msg |-> c.msg, heap |-> c.heap, ref |-> c.ref,
         prob |-> IF d.loads.kind = "Load"
                  THEN [d EXCEPT !.loads = ArgList]
                  ELSE d]

\* np.array(problem[key]) unless it is an array already; a single number
\* becomes an array without a length
ToArray(x) ==
    IF x.ty \in {"ndarray", "ndarray0"} THEN x
    ELSE IF x.ty \in {"list", "tuple"} THEN [x EXCEPT !.ty = "ndarray"]
    ELSE [x EXCEPT !.ty = "ndarray0"]

\* The exception of lines 564-566 for the array x, "none" if none
ArrayErr(x, L) ==
    IF x.ty = "ndarray0" THEN "TypeError"
    ELSE IF Len(x.items) # L + 1 THEN "ValueError"
    ELSE "none"

ArrayFail(e, key, d) ==
    [err |-> e, msg |-> key, EI |-> NoArray, GA |-> NoArray, top |-> NoArray,
     bot |-> NoArray, prob |-> d]

\* _check_arrays(problem): the keys are converted and tested one after the
\* other, each conversion stored in the dictionary before its test
dict_check_arrays(d) ==
    LET L == d.length[1]
        d1 == [d EXCEPT !.EI = ToArray(d.EI)]
        d2 == [d EXCEPT !.EI = ToArray(d.EI), !.GA = ToArray(d.GA)]
        d3 == [d EXCEPT !.EI = ToArray(d.EI), !.GA = ToArray(d.GA),
                        !.top = ToArray(d.top)]
        d4 == [d EXCEPT !.EI = ToArray(d.EI), !.GA = ToArray(d.GA),
                        !.top = ToArray(d.top), !.bot = ToArray(d.bot)]
    IN  IF ArrayErr(d1.EI, L) # "none" THEN ArrayFail(ArrayErr(d1.EI, L), "EI", d1)
        ELSE IF ArrayErr(d2.GA, L) # "none" THEN ArrayFail(ArrayErr(d2.GA, L), "GA", d2)
        ELSE IF ArrayErr(d3.top, L) # "none" THEN ArrayFail(ArrayErr(d3.top, L), "top", d3)
        ELSE IF ArrayErr(d4.bot, L) # "none" THEN ArrayFail(ArrayErr(d4.bot, L), "bot", d4)
        ELSE [err |-> "none", msg |-> "",
              EI |-> [i \in 0..L |-> d4.EI.items[i + 1]],
              GA |-> [i \in 0..L |-> d4.GA.items[i + 1]],
              top |-> [i \in 0..L |-> d4.top.items[i + 1]],
              bot |-> [i \in 0..L |-> d4.bot.items[i + 1]],
              prob |-> d4]

\* _check_shear(problem): a missing 'shear' is added as True
dict_check_shear(d) ==
    IF d.shear.ty = "missing" THEN
        [err |-> "none", val |-> Bool(TRUE), prob |-> [d EXCEPT !.shear = Bool(TRUE)]]
    ELSE IF d.shear.ty # "bool" THEN
        [err |-> "ValueError", val |-> d.shear, prob |-> d]
    ELSE [err |-> "none", val |-> d.shear, prob |-> d]

\* What a call leaves behind: the dictionary and the result or exception
DictOut(d, r) == [prob |-> d, res |-> r]

\* Lines 84-126, the first three validations done
DictCompute(v, w, ar, sh) ==
    IF sh.err # "none" THEN
        DictOut(sh.prob, Raised(sh.err, "'shear' should be a boolean.", w.heap))
    ELSE DictOut(sh.prob, compute(w.heap, w.ref, v, ar, sh.val))

\* Lines 83-126
DictShear(v, w, ar) ==
    IF ar.err # "none" THEN DictOut(ar.prob, Raised(ar.err, ar.msg, w.heap))
    ELSE DictCompute(v, w, ar, dict_check_shear(ar.prob))

\* Lines 82-126
DictArrays(v, c) ==
    IF c.err # "none" THEN DictOut(c.prob, Raised(c.err, c.msg, c.heap))
    ELSE DictShear(v, CopyList(c.heap, c.ref, "work"), dict_check_arrays(c.prob))

\* Lines 81-126
DictLoads(h, v) ==
    IF v.err # "none" THEN DictOut(v.prob, Raised(v.err, v.msg, h))
    ELSE DictArrays(v, dict_check_loads(h, v.prob))

\* solve(problem) of the dictionary API: d is the dictionary, h holds the
\* list of loads
dict_solve(h, d) == DictLoads(h, dict_check_length_supports(d))

\* ---------------------------------------------------------- the caller

NotSolved == Raised("unsolved", "", [r \in Refs |-> <<>>])

\* The caller may construct another load: nothing solved yet, list not full
CanConstruct == results = NotSolved /\ Len(loads) < MaxLoads

\* The caller's list after loads.append(r): a constructor that raises leaves
\* the list as it was.
Appended(r) == IF r.err = "none" THEN Append(loads, r.val) ELSE loads

Kw2(k1, v1, k2, v2) == [k \in {k1, k2} |-> IF k = k1 THEN v1 ELSE v2]

Kw3(k1, v1, k2, v2, k3, v3) ==
    [k \in {k1, k2, k3} |-> IF k = k1 THEN v1 ELSE IF k = k2 THEN v2 ELSE v3]

\* loads.append(Load(force=f, pos=p))
NewLoad(f, p) ==
    LET r == Load(Kw2("force", Float(f), "pos", Float(p)))
    IN  /\ CanConstruct
        /\ raised' = r.err
        /\ loads' = Appended(r)
        /\ UNCHANGED <<api, returned, written, args, problem, results>>

\* loads.append(MomentLoad(m, p))
NewMomentLoad(m, p) ==
    LET r == MomentLoad(Float(m), Float(p))
    IN  /\ CanConstruct
        /\ raised' = r.err
        /\ loads' = Appended(r)
        /\ UNCHANGED <<api, returned, written, args, problem, results>>

\* loads.append(DistLoad(force=f, start=a, end=b))
NewDistLoad(f, a, b) ==
    LET r == DistLoad(Kw3("force", Float(f), "start", Float(a), "end", Float(b)))
    IN  /\ CanConstruct
        /\ raised' = r.err
        /\ loads' = Appended(r)
        /\ UNCHANGED <<api, returned, written, args, problem, results>>

\* loads.append(TriangleLoad(force=f, start=a, end=b))
NewTriangleLoad(f, a, b) ==
    LET r == TriangleLoad(Kw3("force", Float(f), "start", Float(a), "end", Float(b)))
    IN  /\ CanConstruct
        /\ raised' = r.err
        /\ loads' = Appended(r)
        /\ UNCHANGED <<api, returned, written, args, problem, results>>

\* loads.append(Load(**kw)), kw any keyword arguments: the first call the
\* caller makes, and its last if it raises
CallLoad(kw) ==
    LET r == Load(kw)
    IN  /\ CanConstruct
        /\ loads = <<>> /\ raised = "none"
        /\ args' = kw
        /\ raised' = r.err
        /\ loads' = Appended(r)
        /\ UNCHANGED <<api, returned, written, problem, results>>

\* The caller puts something that is no Load in its list
AppendOther ==
    /\ CanConstruct
    /\ loads' = Append(loads, Other)
    /\ UNCHANGED <<api, returned, written, args, problem, results, raised>>

\* The loads argument the caller passes
Passed ==
    IF passed = "None" THEN ArgNone
    ELSE IF passed = "Load" THEN ArgLoad(loads[1])
    ELSE ArgList

\* results = solve(length, supports, loads, EI, GA, top, bottom, shear)
Solve ==
    LET h == [r \in Refs |-> IF r = "caller" THEN loads ELSE <<>>]
        res == solve(h, pLength, pSupports, Passed, pEI, pGA, pTop, pBottom, pShear)
    IN  /\ passed = "Load" => (Len(loads) > 0 /\ isLoad(loads[1]))
        /\ results' = [res EXCEPT !.heap = NotSolved.heap]
        /\ loads' = res.heap["caller"]
        /\ UNCHANGED <<api, returned, written, args, problem, raised>>

\* The problem dictionary the caller holds
TheDict ==
    [length |-> pLength, EI |-> pEI, GA |-> pGA, top |-> pTop, bot |-> pBottom,
     supports |-> pSupports, loads |-> Passed, shear |-> pShear]

\* The result keys D, M, dy, y, R, etop, ebot are in the dictionary
HasKeys(r) == r.y # NoArray

\* problem = solve(problem) of the dictionary API; a call that raises leaves
\* the result keys of the dictionary as they were
SolveDict ==
    LET h == [r \in Refs |-> IF r = "caller" THEN loads ELSE <<>>]
        out == dict_solve(h, TheDict)
    IN  /\ api = "dict"
        /\ passed = "Load" => (Len(loads) > 0 /\ isLoad(loads[1]))
        /\ pLength' = out.prob.length
        /\ pSupports' = out.prob.supports
        /\ pEI' = out.prob.EI
        /\ pGA' = out.prob.GA
        /\ pTop' = out.prob.top
        /\ pBottom' = out.prob.bot
        /\ pShear' = out.prob.shear
        /\ passed' = out.prob.loads.kind
        /\ loads' = IF passed = "Load" /\ out.prob.loads.kind = "list"
                    THEN out.res.heap["single"]
                    ELSE out.res.heap["caller"]
        /\ results' = IF out.res.status = "ok"
                      THEN [out.res EXCEPT !.heap = NotSolved.heap]
                      ELSE [results EXCEPT !.status = out.res.status,
                                           !.msg = out.res.msg]
        /\ UNCHANGED <<api, returned, raised, written, args>>

\* The x column np.arange(length + 1) of the table that save writes (the
\* columns D, M, y, etop, ebot, dy are left out)
Column(length) == [i \in 1..(length + 1) |-> i - 1]

\* As save, but results without attributes are written as an empty beam
save_Unchecked(r) == Ok(Column(r.length))

\* save(results, path) of the namespace API: what it writes, or the
\* exception of reading an attribute that the results do not have
save(r) ==
    IF r.status # "ok" THEN [err |-> "AttributeError", val |-> <<>>]
    ELSE Ok(Column(r.length))

\* save(problem, path) of the dictionary API
dict_save(d, r) ==
    IF ~HasKeys(r) THEN [err |-> "ValueError", val |-> <<>>]
    ELSE Ok(Column(d.length[1]))

\* save(results, path)
Save ==
    /\ api = "namespace"
    /\ raised' = save(results).err
    /\ written' = IF save(results).err = "none" THEN save(results).val ELSE written
    /\ UNCHANGED <<problem, loads, results, api, args, returned>>

\* save(problem, path)
SaveDict ==
    /\ api = "dict"
    /\ raised' = dict_save(TheDict, results).err
    /\ written' = IF dict_save(TheDict, results).err = "none"
                  THEN dict_save(TheDict, results).val
                  ELSE written
    /\ UNCHANGED <<problem, loads, results, api, args, returned>>

\* ------------------------------------------------------------ the inputs

Forces == {Num(-1), Num(2)}

Moments == {Num(3)}

DistForces == {Num(0 - 2)}

TriForces == {Num(3)}

Positions == {Num(p) : p \in (0 - 1)..MaxLen}

Spans == {<<Num(a), Num(b)>> : a, b \in 0..MaxLen} \cup {<<Num(0 - 1), Num(1)>>}

\* A stiffness profile that is not constant along the beam
Profile(L, even, odd) ==
    [ty |-> "ndarray", v |-> Zero,
     items |-> [i \in 1..(L + 1) |-> IF i % 2 = 0 THEN Num(even) ELSE Num(odd)]]

Init ==
    /\ pLength \in {Num(L) : L \in 1..MaxLen}
    /\ pSupports \in {None} \cup
          {Tuple(<<Num(a), Num(b)>>) : a, b \in 0..MaxLen}
    /\ (pSupports # None =>
          /\ pSupports.items[1][1] < pSupports.items[2][1]
          /\ pSupports.items[2][1] <= pLength[1])
    /\ pEI = Profile(pLength[1], 1, 2)
    /\ pGA = Profile(pLength[1], 3, 1)
    /\ pTop = Float(Num(1))
    /\ pBottom = Float(Num(0 - 1))
    /\ pShear \in {Bool(TRUE), Bool(FALSE)}
    /\ passed = "list"
    /\ loads = <<>>
    /\ results = NotSolved
    /\ raised = "none"
    /\ api = "namespace"
    /\ written = <<>>
    /\ returned = <<>>
    /\ args = <<>>

Next ==
    \/ \E f \in Forces, p \in Positions : NewLoad(f, p)
    \/ \E m \in Moments, p \in Positions : NewMomentLoad(m, p)
    \/ \E f \in DistForces, se \in Spans : NewDistLoad(f, se[1], se[2])
    \/ \E f \in TriForces, se \in Spans : NewTriangleLoad(f, se[1], se[2])
    \/ Solve

Spec == Init /\ [][Next]_vars

\* ------------------------------------- the inputs of the validation

\* Lengths and support positions that need rounding or lie off the beam
LengthsV == {Num(0), <<3, 2>>, Num(MaxLen)}

EntriesV ==
    {Num(0 - 1), Num(0), <<1, 2>>, <<3, 2>>, Num(2), Num(MaxLen), Num(MaxLen + 1)}

SupportsV ==
    {None, Tuple(<<Num(0)>>), Tuple(<<Num(0), Num(1), Num(2)>>)}
        \cup {Tuple(<<a, b>>) : a, b \in EntriesV}

InitValidate ==
    /\ pLength \in LengthsV
    /\ pSupports \in SupportsV
    /\ pEI = Float(Num(2))
    /\ pGA = Float(Num(3))
    /\ pTop = Float(Num(1))
    /\ pBottom = Float(Num(0 - 1))
    /\ pShear = Bool(TRUE)
    /\ passed \in {"list", "Load", "None"}
    /\ loads = <<>>
    /\ results = NotSolved
    /\ raised = "none"
    /\ api = "namespace"
    /\ written = <<>>
    /\ returned = <<>>
    /\ args = <<>>

NextValidate ==
    \/ \E p \in {Num(1), <<5, 2>>} : NewLoad(Num(0 - 1), p)
    \/ AppendOther
    \/ Solve

SpecValidate == InitValidate /\ [][NextValidate]_vars

\* ------------------------------------------------------------ the claims

\* The call of solve returned a result
Solved == results.status = "ok"

\* The validated length and supports of the problem
Valid == check_length_supports(pLength, pSupports)

S1 == Valid.s1

S2 == Valid.s2.v[1]

Supported == Solved /\ pSupports # None

Clamped == Solved /\ pSupports = None

Sizes(ls) == SumSeq([i \in 1..Len(ls) |-> ls[i].size])

Moments_about(ls, x) == SumSeq([i \in 1..Len(ls) |-> moment(ls[i], x)])

\* ld lies within the beam [0, L]
InBeam(ld, L) ==
    IF ld.cls \in {"DistLoad", "TriangleLoad"}
    THEN 0 <= ld.start /\ ld.end <= L
    ELSE ~RLess(ld.pos, Zero) /\ ~RLess(Num(L), ld.pos)

AllInBeam == \A i \in 1..Len(loads) : InBeam(loads[i], results.length)

\* C1: for a simply supported beam the deflection returned by solve is
\* exactly 0 at both supports, whatever the loads and the shear flag.
C1_SupportsAtZero ==
    Supported => (results.y[S1] = Zero /\ results.y[S2] = Zero)

\* C1 witness: a solved beam on two supports strictly inside the beam, with
\* shear enabled, that deflects somewhere.
C1_Witness ==
    /\ Supported
    /\ pShear = Bool(TRUE)
    /\ 0 < S1 /\ S2 < results.length
    /\ \E i \in 0..results.length : results.y[i] # Zero

\* C2: for loads within [0, L] the shear D is exactly 0 at the last sample
\* x = L (force equilibrium).
C2_ShearZeroAtEnd ==
    (Solved /\ AllInBeam) => results.D[results.length] = Zero

\* C3: for a simply supported beam R2 is a point load at s2 of size
\* -(sum of moments about s1)/(s2 - s1), R1 a point load at s1 of size
\* -(sum of sizes + R2.size); loads and reactions have zero total force and
\* zero total moment about s1.
C3_Reactions ==
    Supported =>
        LET R1 == results.R[1]
            R2 == results.R[2]
            all == loads \o <<R1, R2>>
        IN  /\ R2.cls = "Load" /\ R2.pos = Num(S2)
            /\ R2.size = RNeg(RDiv(Moments_about(loads, S1), Num(S2 - S1)))
            /\ R1.cls = "Load" /\ R1.pos = Num(S1)
            /\ R1.size = RNeg(RAdd(Sizes(loads), R2.size))
            /\ Sizes(all) = Zero
            /\ Moments_about(all, S1) = Zero

\* C3 witness: a solved supported beam, first support not at 0, with two
\* reactions that are not zero.
C3_Witness ==
    /\ Supported
    /\ S1 > 0
    /\ results.R[1].size # Zero
    /\ results.R[2].size # Zero

\* C4: for a clamped beam R1 is a point load at 0 of size -(sum of sizes)
\* and R2 is the plain number -(sum of moments about 0); R2 is no Load and
\* adds nothing to the shear, which is the loads' shear plus that of R1.
C4_ClampReactions ==
    Clamped =>
        LET R1 == results.R[1]
            R2 == results.R[2]
        IN  /\ R1.cls = "Load" /\ R1.pos = Zero
            /\ R1.size = RNeg(Sizes(loads))
            /\ ~isLoad(R2)
            /\ R2 = Plain(RNeg(Moments_about(loads, 0)))
            /\ \A i \in 0..results.length :
                 results.D[i] =
                    RAdd(R1.size,
                         SumSeq([k \in 1..Len(loads) |-> shear(loads[k], results.length).val[i]]))

\* C4 witness: a solved clamped beam whose reaction force and reaction
\* moment are not zero.
C4_Witness ==
    /\ Clamped
    /\ results.R[1].size # Zero
    /\ results.R[2].size # Zero

\* C5: solve never changes the caller's list of loads, so no reaction load
\* shows in it, and a later call on the same list returns the same reactions.
C5_CallerListUntouched ==
    [][(results' # results \/ results # NotSolved) =>
         /\ loads' = loads
         /\ (Solved => results'.R = results.R)]_vars

\* C5 witness: solve has returned for a list of two loads.
C5_Witness == Solved /\ Len(loads) = 2 /\ results.R[1].size # Zero

\* C6: for a clamped beam the result has zero deflection and zero slope at
\* the clamp, y[0] = 0 and dy[0] = 0.
C6_ClampAtZero ==
    Clamped => (results.y[0] = Zero /\ results.dy[0] = Zero)

\* C7: every load solve computes with lies within the beam; a load below 0
\* or above L is rejected with an error.
C7_LoadsInBeam == Solved => AllInBeam

\* C8: a distributed or triangular load whose start equals its end is
\* rejected; solve never computes with one.
C8_NoZeroSpan ==
    Solved =>
        \A i \in 1..Len(loads) :
            loads[i].cls \in {"DistLoad", "TriangleLoad"} =>
                loads[i].start # loads[i].end

\* solve has been called
Attempted == results.status # "unsolved"

\* What solve returns for the problem with other supports and another
\* list of loads in the caller's hands
Resolve(sup, ls, arg) ==
    LET h == [r \in Refs |-> IF r = "caller" THEN ls ELSE <<>>]
        res == solve(h, pLength, sup, arg, pEI, pGA, pTop, pBottom, pShear)
    IN  [res EXCEPT !.heap = NotSolved.heap]

SupportMsgs ==
    {"The problem definition must contain exactly two supports.",
     "Two identical supports found!",
     "Support(s) outside of the beam!"}

\* Exactly two entries whose rounded values are distinct and within [0, L]
Acceptable ==
    /\ Len(pSupports.items) = 2
    /\ round(pSupports.items[1]) # round(pSupports.items[2])
    /\ round(pSupports.items[1]) \in 0..round(pLength)
    /\ round(pSupports.items[2]) \in 0..round(pLength)

Reversed == Tuple(<<pSupports.items[2], pSupports.items[1]>>)

LoadMsgs == {"No loads specified", "Loads must be Load instances"}

\* C10: solve raises ValueError when the loads argument is None, is empty
\* or holds an element that is no Load; a single Load passed alone gives the
\* result of the one-element list holding it.
C10_Loads ==
    (Attempted /\ Valid.err = "none") =>
        /\ (\/ passed = "None"
            \/ passed = "list" /\ loads = <<>>
            \/ passed = "list" /\ \E i \in 1..Len(loads) : ~isLoad(loads[i]))
           => (/\ results.status = "ValueError"
               /\ results.msg \in LoadMsgs
               /\ results.D = NoArray)
        /\ passed = "Load" => results = Resolve(pSupports, <<loads[1]>>, ArgList)

\* C10 witness: solve returned for a single Load passed alone, taken from a
\* list that also holds something that is no Load.
C10_Witness ==
    /\ Solved
    /\ passed = "Load"
    /\ Len(loads) = 2
    /\ ~isLoad(loads[2])

\* ------------------------------------------ the inputs of _check_arrays

\* A list, tuple or array of n entries, none of them 0 and no two equal
Entries(n) == [i \in 1..n |-> Num(i)]

\* What a caller may pass as EI for a beam of length L
ArraysEI(L) ==
    {Float(Num(2)), Bool(TRUE), None, List(Entries(L)), List(Entries(L + 1)),
     Tuple(Entries(L + 2)), Profile(L, 1, 2)}

ArraysGA(L) == {Float(Num(3)), Tuple(Entries(L + 1)), Profile(L - 1, 3, 1)}

ArraysTop(L) == {Float(Num(1)), List(Entries(L + 1)), List(<<>>)}

ArraysBottom(L) == {Float(Num(0 - 1)), Profile(L, 2, 1), BadStr}

InitArrays ==
    /\ pLength \in {Num(L) : L \in 1..MaxLen} \cup {<<5, 2>>}
    /\ pSupports = None
    /\ pEI \in ArraysEI(round(pLength))
    /\ pGA \in ArraysGA(round(pLength))
    /\ pTop \in ArraysTop(round(pLength))
    /\ pBottom \in ArraysBottom(round(pLength))
    /\ pShear = Bool(TRUE)
    /\ passed = "list"
    /\ loads = <<>>
    /\ results = NotSolved
    /\ raised = "none"
    /\ api = "namespace"
    /\ written = <<>>
    /\ returned = <<>>
    /\ args = <<>>

NextArrays ==
    \/ \E p \in {Num(1), Num(2)} : NewLoad(Num(2), p)
    \/ Solve

SpecArrays == InitArrays /\ [][NextArrays]_vars

\* x is a single number (int, float; bool is an int)
IsNumber(x) == x.ty \in {"float", "bool"}

\* x is a list, a tuple or an array
IsSequence(x) == x.ty \in {"list", "tuple", "ndarray"}

\* The array made of x is x broadcast to 0..L, or the L + 1 entries of x
ArrayOf(a, x, L) ==
    /\ DOMAIN a = 0..L
    /\ IsNumber(x) => \A i \in 0..L : a[i] = x.v
    /\ IsSequence(x) => \A i \in 0..L : a[i] = x.items[i + 1]

\* x passes the validation for a beam of length L
ArrayAccepted(x, L) == IsNumber(x) \/ (IsSequence(x) /\ Len(x.items) = L + 1)

\* C11: a single number is broadcast to L + 1 equal entries, a list, tuple
\* or array is accepted only with exactly L + 1 entries (ValueError
\* otherwise); after a successful validation all four arrays have L + 1
\* entries.
C11_Arrays ==
    LET L == round(pLength)
        ar == check_arrays(L, pEI, pGA, pTop, pBottom)
        good == \A x \in {pEI, pGA, pTop, pBottom} : ArrayAccepted(x, L)
    IN  /\ (ar.err = "none") <=> good
        /\ ~good => ar.err = "ValueError"
        /\ good => /\ ArrayOf(ar.EI, pEI, L) /\ ArrayOf(ar.GA, pGA, L)
                    /\ ArrayOf(ar.top, pTop, L) /\ ArrayOf(ar.bot, pBottom, L)
        /\ (Attempted /\ loads # <<>>) =>
              /\ Solved <=> good
              /\ ~good => (results.status = "ValueError" /\ results.D = NoArray)
              /\ Solved => (DOMAIN results.etop = 0..L /\ DOMAIN results.ebot = 0..L)

\* C11 witness: solve returned for a single number as EI and a list of
\* L + 1 entries as top, and the strain at the top differs along the beam.
C11_Witness ==
    /\ Solved
    /\ IsNumber(pEI)
    /\ pTop.ty = "list"
    /\ Len(pTop.items) = results.length + 1
    /\ \E i, j \in 0..results.length : results.etop[i] # results.etop[j]

\* --------------------------------------- the inputs of the dictionary API

SupportsD(L) ==
    {None, Tuple(<<Num(0), Num(L)>>), Tuple(<<Num(L), Num(0)>>),
     Tuple(<<Num(1), Num(1)>>), Tuple(<<<<1, 2>>, <<3, 2>>>>), Tuple(<<Num(0)>>)}

InitDict ==
    /\ pLength \in {Num(0), <<5, 2>>, Num(MaxLen)}
    /\ pSupports \in SupportsD(round(pLength))
    /\ pEI \in {List(Entries(round(pLength) + 1)), List(Entries(round(pLength)))}
    /\ pGA \in {Profile(round(pLength), 3, 1), Float(Num(3))}
    /\ pTop = Tuple(Entries(round(pLength) + 1))
    /\ pBottom = Profile(round(pLength), 2, 1)
    /\ pShear \in {Bool(FALSE), Missing, Float(Num(1))}
    /\ passed \in {"list", "Load", "None"}
    /\ loads = <<>>
    /\ results = NotSolved
    /\ raised = "none"
    /\ api = "dict"
    /\ written = <<>>
    /\ returned = <<>>
    /\ args = <<>>

NextDict ==
    \/ \E p \in {Num(1), Num(2)} : NewLoad(Num(2), p)
    \/ SolveDict

SpecDict == InitDict /\ [][NextDict]_vars

\* The entries of the dictionary that the caller wrote
Given == <<pLength, pSupports, passed, loads, pEI, pGA, pTop, pBottom, pShear>>

\* The last call of solve raised
Failed == results.status \notin {"ok", "unsolved"}

\* C12: in the dictionary API a solve that fails validation adds none of
\* the result keys and leaves the problem dictionary exactly as it was.
C12_NoPartialState ==
    [][(Failed' /\ results' # results) =>
          (HasKeys(results') = HasKeys(results) /\ Given' = Given)]_vars

\* ------------------------------------------------- solve, then save

InitSave ==
    /\ pLength \in {Num(L) : L \in 1..MaxLen}
    /\ pSupports \in {None, Tuple(<<Num(0), pLength>>), Tuple(<<Num(1), Num(1)>>)}
    /\ pEI = Profile(pLength[1], 1, 2)
    /\ pGA = Profile(pLength[1], 3, 1)
    /\ pTop = Profile(pLength[1], 1, 1)
    /\ pBottom = Profile(pLength[1], 2, 2)
    /\ pShear \in {Bool(TRUE), Bool(FALSE)}
    /\ passed = "list"
    /\ loads = <<>>
    /\ results = NotSolved
    /\ raised = "none"
    /\ api \in {"namespace", "dict"}
    /\ written = <<>>
    /\ returned = <<>>
    /\ args = <<>>

NextSave ==
    \/ \E p \in {Num(1), Num(2)} : NewLoad(Num(2), p)
    \/ (api = "namespace" /\ Solve)
    \/ Save
    \/ SolveDict
    \/ SaveDict

SpecSave == InitSave /\ [][NextSave]_vars

\* A call of save that did something: nothing but the file and the
\* exception changes
SaveStep ==
    /\ UNCHANGED <<problem, loads, results>>
    /\ <<raised, written>>' # <<raised, written>>

\* C13: save on a problem or result that has not been solved raises
\* (ValueError in the dictionary API, AttributeError in the namespace API)
\* and writes nothing; a file is only ever written from a solved problem.
C13_SaveAfterSolve ==
    [][/\ (~HasKeys(results) /\ SaveStep) =>
            /\ written' = written
            /\ raised' = IF api = "dict" THEN "ValueError" ELSE "AttributeError"
       /\ written' # <<>> => HasKeys(results')]_vars

\* C13 witness: save was called after a solve that raised, and nothing was
\* written.
C13_Witness ==
    /\ api = "namespace"
    /\ results.status = "ValueError"
    /\ raised = "AttributeError"
    /\ written = <<>>
    /\ returned = <<>>
    /\ args = <<>>

\* --------------------------------------------- the inputs of Load(**kwargs)

Keys == {"force", "kg", "pos", "forse"}

\* What a caller may pass for a key: numbers, strings that are numbers,
\* strings that are not, None
Values(k) ==
    IF k = "force" THEN
        {Float(Num(0 - 20)), Str(<<"-", "2", "0">>), Str(<<"-", "q">>), None}
    ELSE IF k = "kg" THEN
        {Float(Num(1)), Float(<<3, 2>>), Str(<<"1">>), Str(<<"1", ".", "5">>), Str(<<>>)}
    ELSE IF k = "pos" THEN
        {Float(Num(2)), Float(<<5, 2>>), Float(<<7, 2>>), Str(<<"2">>),
         Str(<<"e", "n", "d">>), None}
    ELSE {Float(Num(0 - 200))}

\* A value for the key k, or Missing for a call without k
Choices(k) == Values(k) \cup {Missing}

\* The keyword arguments with the chosen values, the missing ones left out
Kw(f, g, p, x) ==
    LET all == [k \in Keys |-> IF k = "force" THEN f ELSE IF k = "kg" THEN g
                               ELSE IF k = "pos" THEN p ELSE x]
    IN  [k \in {j \in Keys : all[j] # Missing} |-> all[k]]

Kwargs ==
    {Kw(f, g, p, x) : f \in Choices("force"), g \in Choices("kg"),
                      p \in Choices("pos"), x \in Choices("forse")}

InitLoad ==
    /\ pLength = Num(MaxLen)
    /\ pSupports = None
    /\ pEI = Float(Num(2))
    /\ pGA = Float(Num(3))
    /\ pTop = Float(Num(1))
    /\ pBottom = Float(Num(0 - 1))
    /\ pShear = Bool(FALSE)
    /\ passed = "list"
    /\ loads = <<>>
    /\ results = NotSolved
    /\ raised = "none"
    /\ api = "namespace"
    /\ written = <<>>
    /\ returned = <<>>
    /\ args = <<>>

NextLoad ==
    \/ \E kw \in Kwargs : CallLoad(kw)
    \/ Solve

SpecLoad == InitLoad /\ [][NextLoad]_vars

\* The last call Load(**args) returned a Load, now the last of the list
Made == raised = "none" /\ loads # <<>>

\* The value of a keyword argument that is a number or a numeric string
NumberOf(x) == float(x).val

\* The load that Load(force=f, pos=args["pos"]) makes
Twin(f) == Load(Kw2("force", Float(f), "pos", args["pos"])).val

\* C14: a load made with kg=m has size exactly -9.81*m and is the same in
\* size, pos, moment and shear as the load made with force=-9.81*m; numeric
\* strings are converted and the position is rounded to an integer.
C14_KgIsForce ==
    (Made /\ "kg" \in DOMAIN args /\ "force" \notin DOMAIN args) =>
        LET ld == loads[Len(loads)]
            f == RMul(<<0 - 981, 100>>, NumberOf(args["kg"]))
        IN  /\ ld.size = f
            /\ ld.pos = Num(round(NumberOf(args["pos"])))
            /\ ld.size = Twin(f).size /\ ld.pos = Twin(f).pos
            /\ \A x \in 0..MaxLen : moment(ld, x) = moment(Twin(f), x)
            /\ \A L \in 1..MaxLen : shear(ld, L) = shear(Twin(f), L)

\* C14 witness: a load made from a mass and a position given as strings,
\* the mass not a whole number.
C14_Witness ==
    /\ Made
    /\ "kg" \in DOMAIN args /\ "force" \notin DOMAIN args
    /\ args["kg"] = Str(<<"1", ".", "5">>)
    /\ args["pos"].ty = "str"
    /\ loads[1].size = <<0 - 2943, 200>>

\* ---------------------------------------------------------------------
\* Load(**kwargs) with faulty arguments

\* The call Load(**args) has been made
Called == raised # "none" \/ loads # <<>>

HasMagnitude == "force" \in DOMAIN args \/ "kg" \in DOMAIN args

HasPos == "pos" \in DOMAIN args

\* The magnitude argument the call reads: 'force' if given, else 'kg'
Magnitude == IF "force" \in DOMAIN args THEN args["force"] ELSE args["kg"]

\* The characters are a decimal numeral: an optional sign, digits with at
\* most one point, at least one digit
IsNumeral(s) ==
    LET body == IF s # <<>> /\ s[1] \in {"+", "-"} THEN Tail(s) ELSE s
    IN  /\ \E i \in 1..Len(body) : body[i] \in Digits
        /\ \A i \in 1..Len(body) : body[i] \in Digits \cup {"."}
        /\ Cardinality({i \in 1..Len(body) : body[i] = "."}) <= 1

\* x is a number or a string that reads as one
Numeric(x) == x.ty \in {"float", "bool"} \/ (x.ty = "str" /\ IsNumeral(x.items))

\* The call lacks a magnitude keyword ('forse' is none) or 'pos'
KeyDefect == ~HasMagnitude \/ ~HasPos

\* The magnitude or the position of the call cannot be converted to a number
ValueDefect ==
    \/ HasMagnitude /\ ~Numeric(Magnitude)
    \/ HasPos /\ ~Numeric(args["pos"])

\* What the conversion of a value that is no number raises
ConversionError(x) == IF x.ty = "str" THEN "ValueError" ELSE "TypeError"

\* The first failure of the call, in the order magnitude, then position
Expected ==
    IF ~HasMagnitude THEN "KeyError"
    ELSE IF ~Numeric(Magnitude) THEN ConversionError(Magnitude)
    ELSE IF ~HasPos THEN "KeyError"
    ELSE IF ~Numeric(args["pos"]) THEN ConversionError(args["pos"])
    ELSE "none"

\* C15, as stated: a call without a magnitude keyword or without 'pos' raises
\* KeyError, a call whose magnitude or position cannot be converted to a
\* number raises ValueError (either of the two when both faults are there),
\* and the failed call leaves no Load behind.
C15_Original ==
    Called =>
        /\ (KeyDefect \/ ValueDefect) =>
              \/ KeyDefect /\ raised = "KeyError"
              \/ ValueDefect /\ raised = "ValueError"
        /\ raised # "none" => loads = <<>>

\* C15, amended: Load construction fails at construction time with the first
\* fault in the order magnitude, position: KeyError for a missing keyword,
\* ValueError for a string that is no number, TypeError for a value that is
\* neither a number nor a string (None); the failed call leaves no Load
\* behind, and a call without fault makes one.
C15_FailsAtConstruction ==
    Called =>
        /\ raised = Expected
        /\ raised # "none" => loads = <<>>
        /\ raised = "none" => Len(loads) = 1

C15_Witness ==
    /\ Called
    /\ HasMagnitude /\ Numeric(Magnitude)
    /\ HasPos /\ args["pos"] = None
    /\ raised = "TypeError"
    /\ loads = <<>>
    /\ results.status = "ValueError"

\* ---------------------------------------------------------------------
\* interpolate(tuples)

\* Segment with the samples of np.linspace(..., num=dx, endpoint=True)
Segment_NoEndpoint(starty, dy, dx) ==
    IF dx > 0 THEN [j \in 1..dx |-> RAdd(starty, linspace(dy, dx, j - 1))]
    ELSE <<>>

\* The samples a[:-1] of a = np.linspace(starty, starty + dy, num=dx + 1),
\* none if dx <= 0
Segment(starty, dy, dx) ==
    IF dx > 0 THEN [j \in 1..dx |-> RAdd(starty, linspace(dy, dx + 1, j - 1))]
    ELSE <<>>

\* The arrays that the loop over zip(x[1:] - x[:-1], y[1:] - y[:-1]) appends
\* from the i-th pair on, concatenated
RECURSIVE Segments(_, _, _, _)
Segments(x, y, i, starty) ==
    IF i >= Len(x) THEN <<>>
    ELSE Segment(starty, RSub(y[i + 1], y[i]), x[i + 1] - x[i])
             \o Segments(x, y, i + 1, RAdd(starty, RSub(y[i + 1], y[i])))

\* interpolate(tuples), tuples a sequence of pairs <<n, v>>; the array
\* returned is the sequence of its entries, entry 1 being index 0
interpolate(tuples) ==
    IF tuples = <<>> THEN Raise("IndexError")
    ELSE Ok(Segments([i \in 1..Len(tuples) |-> round(tuples[i][1])],
                     [i \in 1..Len(tuples) |-> tuples[i][2]], 1, tuples[1][2])
                \o <<tuples[Len(tuples)][2]>>)

\* a = interpolate(tuples): the one call of a behaviour
CallInterpolate(tuples) ==
    LET r == interpolate(tuples)
    IN  /\ args = <<>> /\ returned = <<>> /\ raised = "none"
        /\ args' = tuples
        /\ raised' = r.err
        /\ returned' = IF r.err = "none" THEN r.val ELSE returned
        /\ UNCHANGED <<problem, loads, results, api, written>>

MaxPairs == 3

\* The positions and the values of the pairs
PairPositions == {Num(i) : i \in 0..(MaxLen + 1)} \cup {<<3, 2>>, <<5, 2>>}

Heights == {Num(0 - 1), Zero, Num(3)}

\* The lists of the examples of the docstring
Example1 == <<<<Zero, Zero>>, <<Num(3), Num(3)>>>>

Example2 == <<<<Zero, Zero>>, <<Num(4), Num(3)>>, <<Num(6), Num(0 - 1)>>>>

Example3 == <<<<Num(1), Num(1)>>, <<Num(4), Num(4)>>, <<Num(6), Num(0 - 3)>>>>

Tuples ==
    UNION {[1..n -> PairPositions \X Heights] : n \in 0..MaxPairs}
        \cup {Example1, Example2, Example3}

InitInterpolate ==
    /\ pLength = Num(MaxLen)
    /\ pSupports = None
    /\ pEI = Float(Num(2))
    /\ pGA = Float(Num(3))
    /\ pTop = Float(Num(1))
    /\ pBottom = Float(Num(0 - 1))
    /\ pShear = Bool(FALSE)
    /\ passed = "list"
    /\ loads = <<>>
    /\ results = NotSolved
    /\ raised = "none"
    /\ api = "namespace"
    /\ written = <<>>
    /\ returned = <<>>
    /\ args = <<>>

NextInterpolate == \E t \in Tuples : CallInterpolate(t)

SpecInterpolate == InitInterpolate /\ [][NextInterpolate]_vars

\* interpolate(args) has returned an array
Interpolated == raised = "none" /\ returned # <<>>

\* The positions of the list are integers and strictly increasing
Increasing(t) ==
    /\ t # <<>>
    /\ \A i \in 1..Len(t) : t[i][1][2] = 1
    /\ \A i \in 1..(Len(t) - 1) : RLess(t[i][1], t[i + 1][1])

\* Position and value of the i-th pair of the list
PairN(i) == args[i][1][1]

PairV(i) == args[i][2]

\* The point at position n of the straight line between pairs i and i + 1
OnLine(i, n) ==
    RAdd(PairV(i), RDiv(RMul(RSub(PairV(i + 1), PairV(i)), Num(n - PairN(i))),
                        Num(PairN(i + 1) - PairN(i))))

\* C16: for strictly increasing integer positions n_0 < ... < n_k the array
\* has n_k - n_0 + 1 entries, the entry at offset n_i - n_0 is v_i, the
\* entries between two consecutive pairs lie on the straight line between
\* them; [(0,0),(3,3)] gives [0,1,2,3] and [(0,0),(4,3),(6,-1)] gives
\* [0, 0.75, 1.5, 2.25, 3, 1, -1].
C16_Interpolate ==
    ((raised # "none" \/ returned # <<>>) /\ Increasing(args)) =>
        /\ raised = "none"
        /\ Len(returned) = PairN(Len(args)) - PairN(1) + 1
        /\ \A i \in 1..Len(args) : returned[PairN(i) - PairN(1) + 1] = PairV(i)
        /\ \A i \in 1..(Len(args) - 1) : \A n \in PairN(i)..PairN(i + 1) :
               returned[n - PairN(1) + 1] = OnLine(i, n)
        /\ args = Example1 => returned = <<Zero, Num(1), Num(2), Num(3)>>
        /\ args = Example2 =>
               returned = <<Zero, <<3, 4>>, <<3, 2>>, <<9, 4>>, Num(3), Num(1),
                            Num(0 - 1)>>

C16_Witness ==
    /\ Interpolated
    /\ args = Example2
    /\ returned[2] = <<3, 4>>
    /\ Len(returned) = 7

\* C17: the array has, for every given pair (n, v), the value v at index n
\* (n rounded), also when the first position is not 0.
C17_IndexIsPosition ==
    Interpolated =>
        \A i \in 1..Len(args) :
            /\ round(args[i][1]) + 1 \in 1..Len(returned)
            /\ returned[round(args[i][1]) + 1] = PairV(i)

\* ---------------------------------------------------------------------
\* Floating point: binary, Precision bits, round to nearest, ties to even,
\* exponent range unbounded. A number m * 2^e is <<m, e, 2>>, m = 0 or
\* 2^(Precision - 1) <= |m| < 2^Precision.

Precision == 10

RECURSIVE Pow2(_)
Pow2(k) == IF k = 0 THEN 1 ELSE 2 * Pow2(k - 1)

RECURSIVE BitLen(_)
BitLen(n) == IF n = 0 THEN 0 ELSE 1 + BitLen(n \div 2)

Sign(n) == IF n < 0 THEN 0 - 1 ELSE 1

Bin(m, e) == <<m, e, 2>>

IsBin(x) == Len(x) = 3

\* a * 2^e, a > 0 with more than Precision bits: k bits are rounded away
RoundAway(sign, a, e, k) ==
    LET q == a \div Pow2(k)
        r == a % Pow2(k)
        up == r > Pow2(k - 1) \/ (r = Pow2(k - 1) /\ q % 2 = 1)
    IN  IF up /\ q + 1 = Pow2(Precision)
        THEN Bin(sign * Pow2(Precision - 1), e + k + 1)
        ELSE Bin(sign * (IF up THEN q + 1 ELSE q), e + k)

\* The floating-point number nearest to n * 2^e
FRound(n, e) ==
    IF n = 0 THEN Bin(0, 0)
    ELSE IF BitLen(Abs(n)) <= Precision
    THEN Bin(n * Pow2(Precision - BitLen(Abs(n))), e - (Precision - BitLen(Abs(n))))
    ELSE RoundAway(Sign(n), Abs(n), e, BitLen(Abs(n)) - Precision)

\* float(i) of an integer
FInt(i) == FRound(i, 0)

FNeg(a) == Bin(0 - a[1], a[2])

FMul(a, b) == FRound(a[1] * b[1], a[2] + b[2])

\* a + b, the exponent of a not below that of b; b so small that it cannot
\* change a is left out
FAddOrdered(a, b) ==
    IF a[2] - b[2] > Precision + 1 THEN a
    ELSE FRound(a[1] * Pow2(a[2] - b[2]) + b[1], b[2])

FAdd(a, b) ==
    IF a[1] = 0 THEN b
    ELSE IF b[1] = 0 THEN a
    ELSE IF a[2] >= b[2] THEN FAddOrdered(a, b) ELSE FAddOrdered(b, a)

FSub(a, b) == FAdd(a, FNeg(b))

\* a / b, b # 0: the quotient with Precision + 2 further bits and a sticky
\* bit for the remainder, rounded
FDiv(a, b) ==
    LET n == Abs(a[1]) * Pow2(Precision + 2)
        d == Abs(b[1])
    IN  FRound(Sign(a[1]) * Sign(b[1]) * (2 * (n \div d) + (IF n % d = 0 THEN 0 ELSE 1)),
               a[2] - b[2] - Precision - 3)

\* a ** 3, correctly rounded: m^3 = (m^2 \div 2^Precision) * m * 2^Precision
\* + (m^2 % 2^Precision) * m, cut to its upper bits and a sticky bit
CubeUpper(m) ==
    ((m * m) \div Pow2(Precision)) * m + (((m * m) % Pow2(Precision)) * m) \div Pow2(Precision)

CubeSticky(m) ==
    IF (((m * m) % Pow2(Precision)) * m) % Pow2(Precision) = 0 THEN 0 ELSE 1

FCube(a) ==
    FRound(Sign(a[1]) * (2 * CubeUpper(Abs(a[1])) + CubeSticky(Abs(a[1]))),
           3 * a[2] + Precision - 1)

FLess(a, b) == FSub(a, b)[1] < 0

\* a + b of exact numbers over the least common denominator, which keeps
\* the intermediate integers small
RAddLcd(a, b) ==
    Norm(a[1] * (b[2] \div GCD(a[2], b[2])) + b[1] * (a[2] \div GCD(a[2], b[2])),
         (a[2] \div GCD(a[2], b[2])) * b[2])

\* Arithmetic on numbers of either kind: exact (<<n, d>>) or floating point
NInt(i, like) == IF IsBin(like) THEN FInt(i) ELSE Num(i)

NNeg(a) == IF IsBin(a) THEN FNeg(a) ELSE RNeg(a)

NAdd(a, b) == IF IsBin(a) THEN FAdd(a, b) ELSE RAddLcd(a, b)

NSub(a, b) == IF IsBin(a) THEN FSub(a, b) ELSE RAddLcd(a, RNeg(b))

NMul(a, b) == IF IsBin(a) THEN FMul(a, b) ELSE RMul(a, b)

NDiv(a, b) == IF IsBin(a) THEN FDiv(a, b) ELSE RDiv(a, b)

NCube(a) == IF IsBin(a) THEN FCube(a) ELSE RMul(a, RMul(a, a))

NLess(a, b) == IF IsBin(a) THEN FLess(a, b) ELSE RLess(a, b)

NIsZero(a) == a[1] = 0

\* sum(s) of Python: 0 + s[1] + s[2] + ...
NSum(s) ==
    LET acc[i \in 1..Len(s)] == IF i = 1 THEN s[1] ELSE NAdd(acc[i - 1], s[i])
    IN  acc[Len(s)]

\* max(s) and min(s)
NMax(s) == CHOOSE x \in {s[i] : i \in 1..Len(s)} :
               \A i \in 1..Len(s) : ~NLess(x, s[i])

NMin(s) == CHOOSE x \in {s[i] : i \in 1..Len(s)} :
               \A i \in 1..Len(s) : ~NLess(s[i], x)

\* ---------------------------------------------------------------------
\* EI(sections): a section is (width, height, offset, E), an entry of
\* new_geom is (width, height, top, bottom, E)

\* g[2] < yn and g[1] + g[2] > yn
Straddles(g, yn) == NLess(g[3], yn) /\ NLess(yn, NAdd(g[2], g[3]))

\* The two entries of a section split at yn, h1 = yn - offs
SplitAt(g, h1) ==
    <<<<g[1], h1, h1, NInt(0, h1), g[4]>>,
      <<g[1], NSub(g[2], h1), NInt(0, h1), NNeg(NSub(g[2], h1)), g[4]>>>>

\* Referred with top and bottom measured from the top of the cross-section
Referred_FromTop(g, yn) == <<g[1], g[2], yn, NSub(yn, g[2]), g[4]>>

\* The entry of a section that does not straddle yn
Referred(g, yn) ==
    <<g[1], g[2], NSub(yn, g[3]), NSub(NSub(yn, g[3]), g[2]), g[4]>>

\* new_geom: the split sections first, then the others
NewGeom(to_split, geom, yn) ==
    [i \in 1..(2 * Len(to_split) + Len(geom)) |->
        IF i <= 2 * Len(to_split)
        THEN SplitAt(to_split[(i + 1) \div 2],
                     NSub(yn, to_split[(i + 1) \div 2][3]))[2 - (i % 2)]
        ELSE Referred(geom[i - 2 * Len(to_split)], yn)]

\* sum(E * w * (top**3 - bot**3) / 3), max(top), min(bot)
EIof(new_geom) ==
    <<NSum([i \in 1..Len(new_geom) |->
              NDiv(NMul(NMul(new_geom[i][5], new_geom[i][1]),
                        NSub(NCube(new_geom[i][3]), NCube(new_geom[i][4]))),
                   NInt(3, new_geom[i][1]))]),
      NMax([i \in 1..Len(new_geom) |-> new_geom[i][3]]),
      NMin([i \in 1..Len(new_geom) |-> new_geom[i][4]])>>

\* The sections that straddle yn, and those not among them
ToSplit(sections, yn) == SelectSeq(sections, LAMBDA g : Straddles(g, yn))

EIsplit(sections, to_split, yn) ==
    EIof(NewGeom(to_split,
                 SelectSeq(sections,
                           LAMBDA g : \A i \in 1..Len(to_split) : to_split[i] # g),
                 yn))

\* A and S of the sections normalized to (w * E / normal, h, offs)
EIarea(normalized) ==
    NSum([i \in 1..Len(normalized) |-> NMul(normalized[i][1], normalized[i][2])])

\* EIstatic with each section's area taken at its top edge
EIstatic_TopEdge(normalized) ==
    NSum([i \in 1..Len(normalized) |->
            NMul(NMul(normalized[i][1], normalized[i][2]), normalized[i][3])])

EIstatic(normalized) ==
    NSum([i \in 1..Len(normalized) |->
            NMul(NMul(normalized[i][1], normalized[i][2]),
                 NAdd(normalized[i][3],
                      NDiv(normalized[i][2], NInt(2, normalized[i][2]))))])

EInormalized(sections, normalized) ==
    IF NIsZero(EIarea(normalized)) THEN Raise("ZeroDivisionError")
    ELSE Ok(EIsplit(sections,
                    ToSplit(sections, NDiv(EIstatic(normalized), EIarea(normalized))),
                    NDiv(EIstatic(normalized), EIarea(normalized))))

\* EI(sections): the tuple (EI, top, bot)
EI(sections) ==
    IF sections = <<>> THEN Raise("IndexError")
    ELSE IF NIsZero(sections[1][4]) THEN Raise("ZeroDivisionError")
    ELSE EInormalized(sections,
            [i \in 1..Len(sections) |->
                <<NDiv(NMul(sections[i][1], sections[i][4]), sections[1][4]),
                  sections[i][2], sections[i][3]>>])

\* EI, top, bot = EI(sections): the one call of a behaviour
CallEI(sections) ==
    LET r == EI(sections)
    IN  /\ args = <<>> /\ returned = <<>> /\ raised = "none"
        /\ args' = sections
        /\ raised' = r.err
        /\ returned' = IF r.err = "none" THEN r.val ELSE returned
        /\ UNCHANGED <<problem, loads, results, api, written>>

MaxLayers == 2

\* Sections of exact numbers
ExactLayers ==
    {<<Num(w), Num(h), offs, Num(E)>> :
        w \in {1, 2}, h \in {1, 3}, offs \in {Zero, Num(1), <<5, 2>>}, E \in {1, 3}}

\* Single rectangles of floating-point numbers
BinLayers ==
    {<<FInt(w), FInt(h), offs, FInt(E)>> :
        w \in {1, 3, 10}, h \in {3, 7, 20},
        offs \in {FInt(0), FInt(2), FInt(13), FInt(25), FRound(199, 0 - 4)},
        E \in {1, 3, 21}}

Sections ==
    UNION {[1..n -> ExactLayers] : n \in 0..MaxLayers} \cup [1..1 -> BinLayers]

InitEI ==
    /\ pLength = Num(MaxLen)
    /\ pSupports = None
    /\ pEI = Float(Num(2))
    /\ pGA = Float(Num(3))
    /\ pTop = Float(Num(1))
    /\ pBottom = Float(Num(0 - 1))
    /\ pShear = Bool(FALSE)
    /\ passed = "list"
    /\ loads = <<>>
    /\ results = NotSolved
    /\ raised = "none"
    /\ api = "namespace"
    /\ written = <<>>
    /\ returned = <<>>
    /\ args = <<>>

NextEI == \E sections \in Sections : CallEI(sections)

SpecEI == InitEI /\ [][NextEI]_vars

\* EI(args) has returned, args a single rectangle
Rectangle == raised = "none" /\ returned # <<>> /\ Len(args) = 1

\* The numbers of the sections are exact
Exact(sections) == \A i \in 1..Len(sections) : ~IsBin(sections[i][1])

\* The exact value of a number of either kind
ValueOf(x) ==
    IF ~IsBin(x) THEN x
    ELSE IF x[2] >= 0 THEN Num(x[1] * Pow2(x[2]))
    ELSE Norm(x[1], Pow2(0 - x[2]))

\* E * B * H^3 / 12 and H / 2 of the rectangle g, exactly
EIc(g) ==
    RMul(RDiv(RMul(ValueOf(g[4]), ValueOf(g[1])), Num(12)),
         RMul(ValueOf(g[2]), RMul(ValueOf(g[2]), ValueOf(g[2]))))

Half(g) == RDiv(ValueOf(g[2]), Num(2))

\* 0.99 < a / b < 1.01
Within1Percent(a, b) ==
    /\ RLess(<<99, 100>>, RDiv(a, b))
    /\ RLess(RDiv(a, b), <<101, 100>>)

\* C18, as stated: for a single rectangle at any offset EI returns the
\* stiffness E*B*H^3/12 within 1% and top and bottom of exactly +H/2 and
\* -H/2, in the arithmetic in which the code computes.
C18_Original ==
    Rectangle =>
        /\ Within1Percent(ValueOf(returned[1]), EIc(args[1]))
        /\ ValueOf(returned[2]) = Half(args[1])
        /\ ValueOf(returned[3]) = RNeg(Half(args[1]))

\* C18, amended: for a single rectangle at any offset EI returns the
\* stiffness E*B*H^3/12 within 1%; in exact arithmetic it returns exactly
\* E*B*H^3/12, +H/2 and -H/2, in floating point top and bottom carry
\* rounding errors.
C18_ExactRectangle ==
    Rectangle =>
        /\ Within1Percent(ValueOf(returned[1]), EIc(args[1]))
        /\ Exact(args) =>
              returned = <<EIc(args[1]), Half(args[1]), RNeg(Half(args[1]))>>

C18_Witness ==
    /\ Rectangle
    /\ args = <<<<Num(2), Num(3), <<5, 2>>, Num(3)>>>>
    /\ returned = <<<<27, 2>>, <<3, 2>>, <<0 - 3, 2>>>>

\* The sections with c added to every offset
Shifted(sections, c) ==
    [i \in 1..Len(sections) |->
        <<sections[i][1], sections[i][2], NAdd(sections[i][3], c), sections[i][4]>>]

Shifts == {Num(1), <<3, 2>>, Num(4)}

\* C19: in exact arithmetic, adding the same constant to the offset of
\* every layer leaves stiffness, top and bottom as they are; the offset of
\* a single-material section has no influence.
C19_Translation ==
    (raised = "none" /\ returned # <<>> /\ Exact(args)) =>
        \A c \in Shifts : EI(Shifted(args, c)) = Ok(returned)

C19_Witness ==
    /\ raised = "none" /\ returned # <<>> /\ Exact(args)
    /\ Len(args) = 2
    /\ args[1][4] # args[2][4]
    /\ args[1][3] # args[2][3]
    /\ returned[2] # RNeg(returned[3])
    /\ EI(Shifted(args, <<3, 2>>)).val = returned


\* ---------------------------------------------------------------------
\* test_clamped_pointload and its neighbours: a beam of 1000 mm clamped
\* at 0, a point load, constant EI, no shear deformation

ScenarioLength == 1000

ScenarioForce == Num(0 - 500)

ScenarioForces == {ScenarioForce, Num(500)}

ScenarioPositions == {Num(ScenarioLength), Num(ScenarioLength \div 2)}

ScenarioEI == {Num(250), Num(500), Num(1000)}

InitScenario ==
    /\ pLength = Num(ScenarioLength)
    /\ pSupports = None
    /\ pEI \in {Float(q) : q \in ScenarioEI}
    /\ pGA = Float(Num(1))
    /\ pTop = Float(Num(15))
    /\ pBottom = Float(Num(0 - 15))
    /\ pShear = Bool(FALSE)
    /\ passed = "Load"
    /\ loads = <<>>
    /\ results = NotSolved
    /\ raised = "none"
    /\ api = "namespace"
    /\ written = <<>>
    /\ returned = <<>>
    /\ args = <<>>

NextScenario ==
    \/ \E f \in ScenarioForces, p \in ScenarioPositions : NewLoad(f, p)
    \/ Solve

SpecScenario == InitScenario /\ [][NextScenario]_vars

\* solve has returned the result of scenario 1
Scenario1 ==
    /\ results.status = "ok"
    /\ pLength = Num(ScenarioLength)
    /\ loads[1].size = ScenarioForce /\ loads[1].pos = Num(ScenarioLength)

\* P * L^3 / (3 * E * I)
TipFormula ==
    RMul(RDiv(ScenarioForce, RMul(Num(3), pEI.v)),
         Num(ScenarioLength * ScenarioLength * ScenarioLength))

\* C20: scenario 1 (length 1000, clamped at 0, -500 N at x = 1000, constant
\* EI, no shear): the tip deflection y[1000] differs from P*L^3/(3*E*I) by
\* less than 0.5% relative error.
C20_TipDeflection ==
    Scenario1 =>
        /\ RLess(<<0 - 1, 200>>, RSub(RDiv(results.y[ScenarioLength], TipFormula), Num(1)))
        /\ RLess(RSub(RDiv(results.y[ScenarioLength], TipFormula), Num(1)), <<1, 200>>)

C20_Witness ==
    /\ Scenario1
    /\ pEI = Float(Num(500))
    /\ results.y[ScenarioLength] = Num(0 - 333832500)
    /\ results.D[0] = Num(500) /\ results.D[ScenarioLength] = Zero
    /\ results.M[0] = Num(0 - 499500)

\* ---------------------------------------------------------------------
\* The bending moment at the free end of a supported beam

\* No load of the caller is a TriangleLoad
NoTriangle == \A i \in 1..Len(loads) : loads[i].cls # "TriangleLoad"

\* C22: for a simply supported beam under point loads, uniform distributed
\* loads and moment loads within [0, L] (start + end odd included), the
\* bending moment M is 0 at the last sample x = L.
C22_MomentZeroAtEnd ==
    (Supported /\ AllInBeam /\ NoTriangle) => results.M[results.length] = Zero

\* ---------------------------------------------------------------------
\* The methods of the loads, called by the caller: ld.shear(length),
\* ld.moment(pos), ld.moment_array(length).  args holds the method, the
\* index of the load in the caller's list and the argument; returned holds
\* the result.  The caller makes one such call before it calls solve.

\* loads[k].shear(length), length the length of the beam
CallShear(k) ==
    LET r == shear(loads[k], pLength[1])
    IN  /\ k \in 1..Len(loads)
        /\ results = NotSolved /\ args = <<>>
        /\ args' = <<"shear", k, pLength[1]>>
        /\ raised' = r.err
        /\ returned' = IF r.err = "none" THEN r.val ELSE returned
        /\ UNCHANGED <<api, written, problem, loads, results>>

\* loads[k].moment(x)
CallMoment(k, x) ==
    /\ k \in 1..Len(loads)
    /\ results = NotSolved /\ args = <<>>
    /\ args' = <<"moment", k, x>>
    /\ raised' = "none"
    /\ returned' = moment(loads[k], x)
    /\ UNCHANGED <<api, written, problem, loads, results>>

\* loads[k].moment_array(length): a method of MomentLoad only
CallMomentArray(k) ==
    /\ k \in 1..Len(loads)
    /\ results = NotSolved /\ args = <<>>
    /\ args' = <<"moment_array", k, pLength[1]>>
    /\ raised' = IF loads[k].cls = "MomentLoad" THEN "none" ELSE "AttributeError"
    /\ returned' = IF loads[k].cls = "MomentLoad"
                   THEN moment_array(loads[k], pLength[1])
                   ELSE returned
    /\ UNCHANGED <<api, written, problem, loads, results>>

\* Positions and spans start <= end on the beam
MethodPositions == {Num(p) : p \in 0..MaxLen}

MethodSpans ==
    {se \in {<<Num(a), Num(b)>> : a, b \in 0..MaxLen} : se[1][1] <= se[2][1]}

InitMethods ==
    /\ pLength = Num(MaxLen)
    /\ pSupports \in {None, Tuple(<<Num(0), pLength>>)}
    /\ pEI = Float(Num(2))
    /\ pGA = Float(Num(3))
    /\ pTop = Float(Num(1))
    /\ pBottom = Float(Num(0 - 1))
    /\ pShear = Bool(FALSE)
    /\ passed = "list"
    /\ loads = <<>>
    /\ results = NotSolved
    /\ raised = "none"
    /\ api = "namespace"
    /\ written = <<>>
    /\ returned = <<>>
    /\ args = <<>>

NextMethods ==
    \/ \E p \in MethodPositions : NewLoad(Num(0 - 1), p)
    \/ \E p \in MethodPositions : NewMomentLoad(Num(3), p)
    \/ \E se \in MethodSpans : NewDistLoad(Num(0 - 2), se[1], se[2])
    \/ \E se \in MethodSpans : NewTriangleLoad(Num(3), se[1], se[2])
    \/ \E k \in 1..MaxLoads : CallShear(k)
    \/ \E k \in 1..MaxLoads, x \in 0..MaxLen : CallMoment(k, x)
    \/ \E k \in 1..MaxLoads : CallMomentArray(k)
    \/ Solve

SpecMethods == InitMethods /\ [][NextMethods]_vars

\* The load on which the last method was called, and the argument
Callee == loads[args[2]]

\* method returned a value for a load of class cls that spans a < b on the beam
SpanCall(method, cls) ==
    /\ Len(args) = 3 /\ args[1] = method
    /\ raised = "none"
    /\ Callee.cls = cls
    /\ 0 <= Callee.start /\ Callee.start < Callee.end /\ Callee.end <= pLength[1]

\* C23: TriangleLoad(force=F, start=a, end=b).shear(L), 0 <= a < b <= L, has
\* L + 1 entries, is 0 before the onset and equals F from the end of the
\* span up to index L.
C23_TriangleShear ==
    SpanCall("shear", "TriangleLoad") =>
        /\ DOMAIN returned = 0..args[3]
        /\ \A i \in 0..args[3] : i <= Callee.start => returned[i] = Zero
        /\ \A i \in 0..args[3] : i >= Callee.end => returned[i] = Callee.size

\* C24: DistLoad(force=q, start=a, end=b).shear(L), 0 <= a < b <= L, has
\* L + 1 entries, is 0 at every index <= a, q at every index >= b, and
\* q*(i - a)/(b - a) at every index a <= i <= b.
C24_DistShear ==
    SpanCall("shear", "DistLoad") =>
        /\ DOMAIN returned = 0..args[3]
        /\ \A i \in 0..args[3] : i <= Callee.start => returned[i] = Zero
        /\ \A i \in 0..args[3] : i >= Callee.end => returned[i] = Callee.size
        /\ \A i \in Callee.start..Callee.end :
             returned[i] = RDiv(RMul(Callee.size, Num(i - Callee.start)),
                                Num(Callee.end - Callee.start))

\* The moment about the position of the call of the force of the load on
\* the lever arm
ClosedForm(arm) == RMul(Callee.size, RSub(arm, Num(args[3])))

\* C25: moment(x) of a distributed load over a < b is the moment of the
\* continuous load about x: F*((a + b)/2 - x) for a DistLoad (a + b odd
\* included), F*(a + 2*(b - a)/3 - x) for a TriangleLoad.
C25_ClosedFormMoment ==
    /\ SpanCall("moment", "DistLoad") =>
         returned = ClosedForm(RDiv(Num(Callee.start + Callee.end), Num(2)))
    /\ SpanCall("moment", "TriangleLoad") =>
         returned = ClosedForm(RAdd(Num(Callee.start),
                                    RDiv(Num(2 * (Callee.end - Callee.start)), Num(3))))

\* method returned a value for a load of class cls
MethodCall(method, cls) ==
    /\ Len(args) = 3 /\ args[1] = method
    /\ raised = "none"
    /\ Callee.cls = cls

\* The step of the claim for the moment load ld: 0 below its position, -m
\* from its position on
MomentStep(ld, i) == IF i < ld.pos[1] THEN Zero ELSE RNeg(ld.m)

\* The steps of the caller's moment loads, summed
StepSum(i) ==
    SumSeq([k \in 1..Len(loads) |->
              IF loads[k].cls = "MomentLoad" THEN MomentStep(loads[k], i) ELSE Zero])

\* The caller's loads that are no moment loads, and the reactions that are loads
Forces26 ==
    SelectSeq(loads \o results.R, LAMBDA ld : isLoad(ld) /\ ld.cls # "MomentLoad")

\* The cumulative sum of the shear force with the steps added
SteppedSum(i) == RAdd(cumsum(results.D, results.length)[i], StepSum(i))

\* C26: a MomentLoad of magnitude m at p has size 0 and zero shear at every
\* index, so that D and the force balance are those of the other loads;
\* its moment(x) is m for every x; its moment_array is 0 below p and -m
\* from p to L; solve adds exactly these steps to the cumulative sum of the
\* shear force to form M.
C26_MomentLoad ==
    /\ \A k \in 1..Len(loads) : loads[k].cls = "MomentLoad" => loads[k].size = Zero
    /\ MethodCall("shear", "MomentLoad") =>
         /\ DOMAIN returned = 0..args[3]
         /\ \A i \in 0..args[3] : returned[i] = Zero
    /\ MethodCall("moment", "MomentLoad") => returned = Callee.m
    /\ MethodCall("moment_array", "MomentLoad") =>
         /\ DOMAIN returned = 0..args[3]
         /\ \A i \in 0..args[3] : returned[i] = MomentStep(Callee, i)
    /\ Solved =>
         /\ Sizes(Forces26) = Zero
         /\ \A i \in 0..results.length :
              /\ results.D[i] =
                   SumSeq([k \in 1..Len(Forces26) |->
                             shear(Forces26[k], results.length).val[i]])
              /\ results.M[i] =
                   IF pSupports = None
                   THEN RSub(SteppedSum(i), SteppedSum(results.length))
                   ELSE SteppedSum(i)

\* C26 witness: moment_array was called on a moment load inside the beam,
\* and solve returned a bending moment that carries the step, on a
\* supported beam that holds a force as well.
C26_Witness ==
    /\ MethodCall("moment_array", "MomentLoad")
    /\ 0 < Callee.pos[1] /\ Callee.pos[1] < pLength[1]
    /\ returned[0] = Zero /\ returned[pLength[1]] = RNeg(Callee.m)
    /\ Callee.m # Zero
    /\ Supported
    /\ Len(loads) = 2 /\ Sizes(loads) # Zero
    /\ results.M[Callee.pos[1]] # cumsum(results.D, results.length)[Callee.pos[1]]

\* ---------------------------------------------------------------------
\* The slope and the deflection

\* The four arrays of the problem, as solve validated them
Arrays == check_arrays(results.length, pEI, pGA, pTop, pBottom)

\* -1.5 * D[i] / GA[i]
ShearSlope(i) == RDiv(RMul(<<-3, 2>>, results.D[i]), Arrays.GA[i])

\* np.cumsum(M / EI)[i]
BendingSlope(i) ==
    cumsum([k \in 0..results.length |-> RDiv(results.M[k], Arrays.EI[k])],
           results.length)[i]

\* C27: in every result of solve (clamped or supported, shear on or off)
\* y[i] - y[i-1] = dy[i] for 1 <= i <= L: the ramp that the alignment adds
\* to y is matched by the constant it adds to dy.
C27_SlopeConsistent ==
    Solved =>
        \A i \in 1..results.length :
            RSub(results.y[i], results.y[i - 1]) = results.dy[i]

\* C27 witness: a supported beam with shear deformation whose alignment
\* turned the slope, the first support not at 0.
C27_Witness ==
    /\ Supported
    /\ pShear = Bool(TRUE)
    /\ S1 > 0
    /\ results.dy[0] # RAdd(BendingSlope(0), ShearSlope(0))
    /\ RSub(results.y[1], results.y[0]) = results.dy[1]
    /\ results.dy[1] # Zero

\* What solve returns for the problem and the caller's list with the shear
\* stiffness GA and the shear flag sh in place of the caller's
Resolved(GA, sh) ==
    [solve([r \in Refs |-> IF r = "caller" THEN loads ELSE <<>>],
           pLength, pSupports, Passed, pEI, GA, pTop, pBottom, sh)
       EXCEPT !.heap = NotSolved.heap]

\* Another shear stiffness of valid length
OtherGA == Float(Num(7))

\* The shear flag negated
Flipped == Bool(pShear.v = Zero)

\* The slope before the alignment that the flag asks for
SlopeBefore(i) ==
    IF pShear.v # Zero THEN RAdd(BendingSlope(i), ShearSlope(i)) ELSE BendingSlope(i)

\* C28: the shear term is applied iff the flag is true.  With shear = False
\* every field of the result is independent of GA; with shear = True the
\* slope before the alignment is cumsum(M/EI)[i] - 1.5*D[i]/GA[i] (the
\* alignment adds one constant to every entry); D, M, etop and ebot are the
\* same for both flag values.
C28_ShearFlag ==
    Solved =>
        /\ pShear.v = Zero => Resolved(OtherGA, pShear) = results
        /\ pSupports = None =>
             \A i \in 0..results.length : results.dy[i] = SlopeBefore(i)
        /\ \A i \in 0..results.length :
             RSub(results.dy[i], results.dy[0]) = RSub(SlopeBefore(i), SlopeBefore(0))
        /\ Resolved(pGA, Flipped).D = results.D
        /\ Resolved(pGA, Flipped).M = results.M
        /\ Resolved(pGA, Flipped).etop = results.etop
        /\ Resolved(pGA, Flipped).ebot = results.ebot

\* C28 witness: a result with shear deformation in which the shear term is
\* not zero and changes the deflection.
C28_Witness ==
    /\ Solved
    /\ pShear = Bool(TRUE)
    /\ \E i \in 0..results.length : ShearSlope(i) # Zero
    /\ Resolved(pGA, Flipped).y # results.y
    /\ Resolved(OtherGA, pShear).y # results.y

\* ---------------------------------------------------------------------
\* DistLoad(**kwargs) and TriangleLoad(**kwargs): the 'pos' argument

SpanKeys == {"force", "pos", "start", "end"}

\* What a caller may pass for a key of a distributed load: for 'pos' pairs,
\* tuples and lists of other lengths, a string, a number, None
SpanValues(k) ==
    IF k = "force" THEN {Float(Num(0 - 2)), Str(<<"-", "q">>)}
    ELSE IF k = "pos" THEN
        {Tuple(<<Float(Num(0)), Float(Num(2))>>),
         Tuple(<<Float(Num(3)), Float(Num(1))>>),
         Tuple(<<Float(Num(0)), Float(Num(2)), Float(Num(3))>>),
         Tuple(<<Float(Num(1))>>),
         Tuple(<<>>),
         Tuple(<<Float(Num(1)), None>>),
         List(<<Float(Num(1)), Float(Num(3))>>),
         List(<<Float(Num(0)), Float(Num(2)), Float(Num(3))>>),
         Str(<<"1", "3">>),
         Str(<<"1", "3", "0">>),
         Float(Num(2)),
         None}
    ELSE IF k = "start" THEN {Float(Num(0)), Float(Num(1))}
    ELSE {Float(Num(2)), Float(Num(3))}

SpanChoices(k) == SpanValues(k) \cup {Missing}

\* The keyword arguments with the chosen values, the missing ones left out
SpanKw(f, p, a, b) ==
    LET all == [k \in SpanKeys |-> IF k = "force" THEN f ELSE IF k = "pos" THEN p
                                   ELSE IF k = "start" THEN a ELSE b]
    IN  [k \in {j \in SpanKeys : all[j] # Missing} |-> all[k]]

SpanKwargs ==
    {SpanKw(f, p, a, b) : f \in SpanChoices("force"), p \in SpanChoices("pos"),
                          a \in SpanChoices("start"), b \in SpanChoices("end")}

\* loads.append(DistLoad(**kw)): the first call the caller makes, and its
\* last if it raises
CallDistLoad(kw) ==
    LET r == DistLoad(kw)
    IN  /\ CanConstruct
        /\ loads = <<>> /\ raised = "none"
        /\ args' = kw
        /\ raised' = r.err
        /\ loads' = Appended(r)
        /\ UNCHANGED <<api, returned, written, problem, results>>

\* loads.append(TriangleLoad(**kw))
CallTriangleLoad(kw) ==
    LET r == TriangleLoad(kw)
    IN  /\ CanConstruct
        /\ loads = <<>> /\ raised = "none"
        /\ args' = kw
        /\ raised' = r.err
        /\ loads' = Appended(r)
        /\ UNCHANGED <<api, returned, written, problem, results>>

NextStartEnd ==
    \/ \E kw \in SpanKwargs : CallDistLoad(kw)
    \/ \E kw \in SpanKwargs : CallTriangleLoad(kw)
    \/ Solve

SpecStartEnd == InitLoad /\ [][NextStartEnd]_vars

\* The argument is a tuple of exactly two entries
IsPair(p) == p.ty = "tuple" /\ Len(p.items) = 2

\* The call DistLoad(**args) or TriangleLoad(**args) has been made with a
\* force that converts and a 'pos', and nothing has been solved since
PosGiven ==
    /\ Called /\ results = NotSolved
    /\ "force" \in DOMAIN args /\ Numeric(args["force"])
    /\ HasPos

\* C29: whenever the 'pos' argument of DistLoad or TriangleLoad is not a
\* tuple of exactly two entries the constructor raises ValueError; a tuple
\* of three entries is rejected, not cut to its first two.
C29_PosIsPair ==
    (PosGiven /\ ~IsPair(args["pos"])) => raised = "ValueError"

\* What the code does with a 'pos' of three entries: a list is rejected, a
\* tuple is taken by its first two entries
C29_Truncated ==
    (PosGiven /\ args["pos"].ty = "tuple" /\ Len(args["pos"].items) = 3) =>
        /\ raised = "none"
        /\ loads[1].start = round(args["pos"].items[1].v)
        /\ loads[1].end = round(args["pos"].items[2].v)

\* ---------------------------------------------------------------------
\* solve(solve(problem)) of the dictionary API

\* The result keys D, M, dy, y and R of the dictionary
Outcome == <<results.D, results.M, results.dy, results.y, results.R>>

\* C30: in the dictionary API solve applied again to the dictionary that a
\* successful solve returned succeeds and yields the same D, M, dy, y and
\* R, for simply supported and for clamped problems alike.
C30_SolveTwice ==
    [][(api = "dict" /\ results.status = "ok") =>
          (results'.status = "ok" /\ Outcome' = Outcome)]_vars

\* What holds of the code: the second solve of a simply supported problem
\* succeeds with the same results, the second solve of a clamped problem
\* raises TypeError on the stored supports (0, None)
C30_SupportedOnly ==
    [][(api = "dict" /\ results.status = "ok") =>
          IF pSupports = ClampTuple
          THEN results'.status = "TypeError" /\ Outcome' = Outcome
          ELSE results'.status = "ok" /\ Outcome' = Outcome]_vars

\* ---------------------------------------------------------------------
\* test_supported_moment_end: a beam of 1000 mm supported at both ends, a
\* moment load at one end, constant EI, no shear deformation

\* The magnitudes M of the moment
EndMoments == {1000 * j : j \in 1..12}

\* Where the moment acts: at the end, at midspan
MomentPositions == {ScenarioLength, ScenarioLength \div 2}

\* The largest M * EI the caller uses
MaxMomentEI == 12000

InitMomentEnd ==
    /\ pLength = Num(ScenarioLength)
    /\ pSupports = Tuple(<<Num(0), Num(ScenarioLength)>>)
    /\ pEI \in {Float(Num(e)) : e \in 1..4}
    /\ pGA = Float(Num(1))
    /\ pTop = Float(Num(15))
    /\ pBottom = Float(Num(0 - 15))
    /\ pShear = Bool(FALSE)
    /\ passed = "Load"
    /\ loads = <<>>
    /\ results = NotSolved
    /\ raised = "none"
    /\ api = "namespace"
    /\ written = <<>>
    /\ returned = <<>>
    /\ args = <<>>

\* The caller makes its one load, MomentLoad(m, p)
EndMoment(m, p) ==
    /\ loads = <<>>
    /\ Abs(m) * pEI.v[1] <= MaxMomentEI
    /\ NewMomentLoad(Num(m), Num(p))

NextMomentEnd ==
    \/ \E M \in EndMoments, p \in MomentPositions : EndMoment(0 - M, p)
    \/ \E M \in EndMoments, p \in MomentPositions : EndMoment(M, p)
    \/ Solve

SpecMomentEnd == InitMomentEnd /\ [][NextMomentEnd]_vars

\* solve has returned the result of scenario 4: the one load is a moment
\* of -M, M > 0, at x = L
Scenario4 ==
    /\ results.status = "ok"
    /\ pSupports = Tuple(<<Num(0), Num(ScenarioLength)>>)
    /\ loads[1].cls = "MomentLoad"
    /\ loads[1].pos = Num(ScenarioLength)
    /\ RLess(loads[1].m, Zero)

\* 0.0642 * M * L^2 / (E * I), divided by 200: 0.5% of the formula
HalfPercent ==
    RDiv(RMul(RMul(Num(ScenarioLength * ScenarioLength), <<642, 10000>>),
              RDiv(RNeg(loads[1].m), pEI.v)),
         Num(200))

\* C21: scenario 4 (length 1000, supports (0, 1000), a moment load of
\* magnitude M at x = 1000, constant EI, no shear): the deflection at
\* x = L - 422 differs from 0.0642*M*L^2/(E*I) by less than 0.5% relative
\* error.
C21_MomentEnd ==
    Scenario4 =>
        /\ WLess(WScale(199, HalfPercent), results.y[ScenarioLength - 422])
        /\ WLess(results.y[ScenarioLength - 422], WScale(201, HalfPercent))

C21_Witness ==
    /\ Scenario4
    /\ pEI = Float(Num(1)) /\ loads[1].m = Num(0 - 1000)
    /\ results.y[ScenarioLength - 422] = <<64393245, 211, 500>>
    /\ results.y[0] = Zero /\ results.y[ScenarioLength] = Zero
    /\ results.R[1].size = Num(0 - 1) /\ results.R[2].size = Num(1)

====
